---- MODULE Spec2Model ----
(***************************************************************************)
(* xmltodict_rs: the event-driven document builder (XmlParser), the driver *)
(* loop that feeds it (parse_xml_with_reader), and the tree serializer     *)
(* (XmlWriter, unparse).                                                   *)
(*                                                                         *)
(* Strings are sequences of one-character strings, so that splitting,      *)
(* prefix tests, trimming and escaping are computed character by           *)
(* character as the code computes them.                                    *)
(***************************************************************************)
EXTENDS Integers, Sequences, FiniteSets, TLC

VARIABLES
    config,           \* ParseConfig, force_list and postprocessor of this parse call
    vocab,            \* the names, attributes and texts the input document is made of
    stack,            \* XmlParser.stack: one dict per open element (or the result dict)
    path,             \* XmlParser.path: resolved names of the open elements
    text_stack,       \* XmlParser.text_stack: text fragments per open element
    namespace_stack,  \* XmlParser.namespace_stack: prefix -> URI per open element
    status,           \* "running" | "ok" | "err": where parse_xml_with_reader is
    error,            \* the error message parse returned ("" when none)
    result,           \* the value parse returned (NoValue when none)
    opened,           \* history: the start tags (raw name, attributes) of the open elements
    kids,             \* history: per dict of the stack, the entries merged into it
    lastMerge,        \* history: the last push_data call: the target mapping before it and
                      \* what the postprocessor did for it (NoValue after other events)
    rootsClosed,      \* history: number of top-level elements closed so far
    hookLog,          \* history: hook invocations made by the last handled event
    nodes,            \* history: number of nodes (tags, texts, comments) read so far
    event,            \* history: the kind of the last event the loop handled
    tagName,          \* history: the raw name of the tag of the last event (NoValue when
                      \* the last event was not a tag)
    uInput,           \* unparse: the input_dict, configuration and preprocessor
    uStatus,          \* unparse: "idle" | "ok" | "err"
    uError,           \* unparse: the error message returned ("" when none)
    uOutput,          \* unparse: the string returned (<<>> when none)
    uWritten,         \* unparse: what XmlWriter.output held when the call ended
    uPreLog,          \* unparse: the (key, value) pairs the preprocessor was called with
    reparsed,         \* the outcome of parsing uOutput again under config
    eInput,           \* escaping: the string given to escape_xml and escape_xml_attr
    eOutput,          \* escaping: what the two functions returned (NoValue before the call)
    adapter,          \* reader: "file_like" (PyFileLikeRead) | "generator" (PyGeneratorRead) | "none"
    source,           \* reader: what the foreign source does at each of its next calls
    pending,          \* reader: PendingBytes [buf, offset] of the adapter
    done,             \* reader: PyGeneratorRead.done
    taken,            \* history: the bytes of the chunks the source has handed over so far
    delivered,        \* history: the bytes the reads have delivered so far
    lastRead,         \* history: the last read: buffer size, result, chunks it asked for
    reads             \* history: number of reads made so far

vars == <<config, vocab, stack, path, text_stack, namespace_stack, status, error, result,
          opened, kids, lastMerge, rootsClosed, hookLog, nodes, event, tagName,
          uInput, uStatus, uError, uOutput, uWritten, uPreLog, reparsed,
          eInput, eOutput, adapter, source, pending, done, taken, delivered, lastRead, reads>>

parseVars == <<config, vocab, stack, path, text_stack, namespace_stack, status, error, result,
               opened, kids, lastMerge, rootsClosed, hookLog, nodes, event, tagName>>

unparseVars == <<uInput, uStatus, uError, uOutput, uWritten, uPreLog, reparsed>>

escapeVars == <<eInput, eOutput>>

readerVars == <<adapter, source, pending, done, taken, delivered, lastRead, reads>>

auxVars == <<escapeVars, readerVars>>

(***************************************************************************)
(* Strings                                                                 *)
(***************************************************************************)
RECURSIVE IndexFrom(_, _, _)
IndexFrom(s, c, i) ==
    IF i > Len(s) THEN 0
    ELSE IF s[i] = c THEN i
    ELSE IndexFrom(s, c, i + 1)

\* str::split_once(':'): the parts before and after the first c, if any
SplitOnce(s, c) ==
    LET i == IndexFrom(s, c, 1) IN
    IF i = 0 THEN [found |-> FALSE, pre |-> <<>>, post |-> s]
    ELSE [found |-> TRUE, pre |-> SubSeq(s, 1, i - 1), post |-> SubSeq(s, i + 1, Len(s))]

StartsWith(s, pre) ==
    /\ Len(pre) <= Len(s)
    /\ SubSeq(s, 1, Len(pre)) = pre

\* str::contains(pattern): pattern occurs as a substring (always, when empty)
Contains(s, sub) ==
    \E i \in 1..(Len(s) + 1) :
        /\ i + Len(sub) - 1 <= Len(s)
        /\ SubSeq(s, i, i + Len(sub) - 1) = sub

IsWhitespace(c) == c \in {" ", "\t", "\n", "\r"}

RECURSIVE TrimStart(_)
TrimStart(s) ==
    IF s # <<>> /\ IsWhitespace(Head(s)) THEN TrimStart(Tail(s)) ELSE s

RECURSIVE TrimEnd(_)
TrimEnd(s) ==
    IF s # <<>> /\ IsWhitespace(s[Len(s)]) THEN TrimEnd(SubSeq(s, 1, Len(s) - 1)) ELSE s

\* str::trim
Trim(s) == TrimEnd(TrimStart(s))

\* [String]::join(sep)
RECURSIVE Join(_, _)
Join(parts, sep) ==
    IF parts = <<>> THEN <<>>
    ELSE IF Len(parts) = 1 THEN parts[1]
    ELSE parts[1] \o sep \o Join(Tail(parts), sep)

(***************************************************************************)
(* The generic tree value (the Python objects the builder produces)        *)
(***************************************************************************)
NoValue == [k |-> "absent"]
Null == [k |-> "null"]
Txt(s) == [k |-> "text", s |-> s]
Map(entries) == [k |-> "map", e |-> entries]
Lst(items) == [k |-> "list", items |-> items]

\* PyDict: insertion-ordered entries with unique keys
DictHas(d, key) == \E i \in 1..Len(d) : d[i].key = key

DictGet(d, key) == d[CHOOSE i \in 1..Len(d) : d[i].key = key].val

\* PyDict::set_item: replaces the value in place, or appends a new entry
DictSet(d, key, val) ==
    IF DictHas(d, key)
    THEN [i \in 1..Len(d) |-> IF d[i].key = key THEN [key |-> key, val |-> val] ELSE d[i]]
    ELSE Append(d, [key |-> key, val |-> val])

DictKeys(d) == [i \in 1..Len(d) |-> d[i].key]

\* HashMap<String, String>::insert
NsInsert(m, prefix, uri) ==
    [q \in (DOMAIN m) \cup {prefix} |-> IF q = prefix THEN uri ELSE m[q]]

EmptyNs == [q \in {} |-> <<>>]

(***************************************************************************)
(* Fixed strings of the code                                               *)
(***************************************************************************)
XMLNS == <<"x", "m", "l", "n", "s">>
COLON == ":"
ErrUnexpectedClose == "unexpected closing tag"
ErrUnclosed == "unclosed element(s) found"
ErrNoElement == "no element found"
ErrInvalidName == "not well-formed (invalid element name)"
ErrHook == "hook raised"
ErrTokenizer == "tokenizer error"
\* the tokenizer's message for Error::EndEventMismatch
ErrEndMismatch == "mismatched end tag"

\* Reader configuration of parse_xml_with_reader: check_end_names(true)
CheckEndNamesOff == FALSE
CheckEndNames == TRUE

(***************************************************************************)
(* Hooks: foreign callables. Each invocation's outcome is an input of the  *)
(* handler that makes it.                                                  *)
(***************************************************************************)
HookKey == <<"z">>
HookVal == Txt(<<"w">>)

\* an apply_postprocessor that takes None for the pair it was given
ApplyPostprocessorNeverDrops(cfg, pth, key, data, o) ==
    IF cfg.postprocessor = {}
    THEN [some |-> TRUE, raised |-> FALSE, key |-> key, val |-> data, log |-> <<>>]
    ELSE LET call == <<[fn |-> "post", path |-> pth, key |-> key, val |-> data]>> IN
         CASE o = "raise" -> [some |-> FALSE, raised |-> TRUE, key |-> key, val |-> data, log |-> call]
           [] o = "rekey" -> [some |-> TRUE, raised |-> FALSE, key |-> HookKey, val |-> data, log |-> call]
           [] o = "reval" -> [some |-> TRUE, raised |-> FALSE, key |-> key, val |-> HookVal, log |-> call]
           [] OTHER       -> [some |-> TRUE, raised |-> FALSE, key |-> key, val |-> data, log |-> call]

\* an apply_postprocessor that takes an exception of the callable for None
ApplyPostprocessorSwallows(cfg, pth, key, data, o) ==
    IF cfg.postprocessor = {}
    THEN [some |-> TRUE, raised |-> FALSE, key |-> key, val |-> data, log |-> <<>>]
    ELSE LET call == <<[fn |-> "post", path |-> pth, key |-> key, val |-> data]>> IN
         IF o \in {"raise", "drop"}
         THEN [some |-> FALSE, raised |-> FALSE, key |-> key, val |-> data, log |-> call]
         ELSE [some |-> TRUE, raised |-> FALSE, key |-> key, val |-> data, log |-> call]

\* XmlParser::apply_postprocessor; cfg.postprocessor is the set of things the
\* foreign callable may do ({} when there is none), o is what it does this time
ApplyPostprocessor(cfg, pth, key, data, o) ==
    IF cfg.postprocessor = {}
    THEN [some |-> TRUE, raised |-> FALSE, key |-> key, val |-> data, log |-> <<>>]
    ELSE LET call == <<[fn |-> "post", path |-> pth, key |-> key, val |-> data]>> IN
         CASE o = "raise" -> [some |-> FALSE, raised |-> TRUE, key |-> key, val |-> data, log |-> call]
           [] o = "drop"  -> [some |-> FALSE, raised |-> FALSE, key |-> key, val |-> data, log |-> call]
           [] o = "rekey" -> [some |-> TRUE, raised |-> FALSE, key |-> HookKey, val |-> data, log |-> call]
           [] o = "reval" -> [some |-> TRUE, raised |-> FALSE, key |-> key, val |-> HookVal, log |-> call]
           [] OTHER       -> [some |-> TRUE, raised |-> FALSE, key |-> key, val |-> data, log |-> call]

\* a policy that never forces a list, whatever force_list is
ShouldForceListNever(cfg, pth, key, value, f) ==
    [force |-> FALSE, raised |-> FALSE, log |-> <<>>]

\* XmlParser::should_force_list; f is what the predicate answers when it is called
ShouldForceList(cfg, pth, key, value, f) ==
    LET fl == cfg.force_list IN
    CASE fl.shape = "none" -> [force |-> FALSE, raised |-> FALSE, log |-> <<>>]
      [] fl.shape = "bool" -> [force |-> fl.val, raised |-> FALSE, log |-> <<>>]
      [] fl.shape = "set"  -> [force |-> key \in fl.keys, raised |-> FALSE, log |-> <<>>]
      [] OTHER ->
            LET call == <<[fn |-> "force", path |-> pth, key |-> key, val |-> value]>> IN
            IF f = "raise" THEN [force |-> FALSE, raised |-> TRUE, log |-> call]
            ELSE [force |-> (f = "yes"), raised |-> FALSE, log |-> call]

\* a merge that consults the force-list policy before looking at the mapping,
\* with the key and value the hook was given
PushDataAsksFirst(cfg, pth, item, key, data, o, f) ==
    LET pp == ApplyPostprocessor(cfg, pth, key, data, o)
        sf == ShouldForceList(cfg, pth, key, data, f)
        ans == IF sf.log = <<>> THEN "unasked" ELSE f
        out(it, raised, log, merged) ==
            [item |-> it, raised |-> raised, log |-> log, merged |-> merged,
             key |-> pp.key, val |-> pp.val, raw |-> data, ans |-> ans]
    IN
    IF pp.raised THEN out(item, TRUE, pp.log, FALSE)
    ELSE IF ~pp.some THEN out(item, FALSE, pp.log, FALSE)
    ELSE IF sf.raised THEN out(item, TRUE, sf.log \o pp.log, FALSE)
    ELSE IF DictHas(item, pp.key)
    THEN LET existing == DictGet(item, pp.key) IN
         IF existing.k = "list"
         THEN out(DictSet(item, pp.key, Lst(Append(existing.items, data))),
                  FALSE, sf.log \o pp.log, TRUE)
         ELSE out(DictSet(item, pp.key, Lst(<<existing, pp.val>>)),
                  FALSE, sf.log \o pp.log, TRUE)
    ELSE IF sf.force
    THEN out(DictSet(item, pp.key, Lst(<<pp.val>>)), FALSE, sf.log \o pp.log, TRUE)
    ELSE out(DictSet(item, pp.key, pp.val), FALSE, sf.log \o pp.log, TRUE)

\* a merge that appends the hook's value to an existing list
PushDataAppendsHooked(cfg, pth, item, key, data, o, f) ==
    LET pp == ApplyPostprocessor(cfg, pth, key, data, o)
        out(it, raised, log, merged, ans) ==
            [item |-> it, raised |-> raised, log |-> log, merged |-> merged,
             key |-> pp.key, val |-> pp.val, raw |-> data, ans |-> ans]
    IN
    IF pp.raised THEN out(item, TRUE, pp.log, FALSE, "unasked")
    ELSE IF ~pp.some THEN out(item, FALSE, pp.log, FALSE, "unasked")
    ELSE IF DictHas(item, pp.key)
    THEN LET existing == DictGet(item, pp.key) IN
         IF existing.k = "list"
         THEN out(DictSet(item, pp.key, Lst(Append(existing.items, pp.val))),
                  FALSE, pp.log, TRUE, "unasked")
         ELSE out(DictSet(item, pp.key, Lst(<<existing, pp.val>>)),
                  FALSE, pp.log, TRUE, "unasked")
    ELSE LET sf == ShouldForceList(cfg, pth, pp.key, pp.val, f)
             ans == IF sf.log = <<>> THEN "unasked" ELSE f
         IN
         IF sf.raised THEN out(item, TRUE, pp.log \o sf.log, FALSE, ans)
         ELSE IF sf.force
         THEN out(DictSet(item, pp.key, Lst(<<pp.val>>)), FALSE, pp.log \o sf.log, TRUE, ans)
         ELSE out(DictSet(item, pp.key, pp.val), FALSE, pp.log \o sf.log, TRUE, ans)

\* a merge that overwrites the entry under the key instead of extending it
PushDataOverwrite(cfg, pth, item, key, data, o, f) ==
    [item |-> DictSet(item, key, data), raised |-> FALSE, log |-> <<>>, merged |-> TRUE,
     key |-> key, val |-> data, raw |-> data, ans |-> "unasked"]

\* XmlParser::push_data: the merge rule. The result also tells whether an
\* entry was merged, under which key and value, and what the force-list
\* predicate answered if it was asked.
PushData(cfg, pth, item, key, data, o, f) ==
    LET pp == ApplyPostprocessor(cfg, pth, key, data, o)
        out(it, raised, log, merged, ans) ==
            [item |-> it, raised |-> raised, log |-> log, merged |-> merged,
             key |-> pp.key, val |-> pp.val, raw |-> data, ans |-> ans]
    IN
    IF pp.raised THEN out(item, TRUE, pp.log, FALSE, "unasked")
    ELSE IF ~pp.some THEN out(item, FALSE, pp.log, FALSE, "unasked")
    ELSE IF DictHas(item, pp.key)
    THEN LET existing == DictGet(item, pp.key) IN
         IF existing.k = "list"
         THEN out(DictSet(item, pp.key, Lst(Append(existing.items, data))),
                  FALSE, pp.log, TRUE, "unasked")
         ELSE out(DictSet(item, pp.key, Lst(<<existing, pp.val>>)),
                  FALSE, pp.log, TRUE, "unasked")
    ELSE LET sf == ShouldForceList(cfg, pth, pp.key, pp.val, f)
             ans == IF sf.log = <<>> THEN "unasked" ELSE f
         IN
         IF sf.raised THEN out(item, TRUE, pp.log \o sf.log, FALSE, ans)
         ELSE IF sf.force
         THEN out(DictSet(item, pp.key, Lst(<<pp.val>>)), FALSE, pp.log \o sf.log, TRUE, ans)
         ELSE out(DictSet(item, pp.key, pp.val), FALSE, pp.log \o sf.log, TRUE, ans)

\* a resolution that keeps the separator when the alias is empty
BuildNameKeepsSeparator(cfg, ns_stack, full_name) ==
    IF ~cfg.process_namespaces \/ ns_stack = <<>> THEN full_name
    ELSE LET ns_map == ns_stack[Len(ns_stack)]
             sp == SplitOnce(full_name, COLON)
         IN IF sp.pre \notin DOMAIN ns_map THEN full_name
            ELSE IF cfg.namespaces.some /\ ns_map[sp.pre] \in DOMAIN cfg.namespaces.map
            THEN cfg.namespaces.map[ns_map[sp.pre]] \o cfg.namespace_separator \o sp.post
            ELSE ns_map[sp.pre] \o cfg.namespace_separator \o sp.post

\* XmlParser::build_name against the innermost namespace mapping
BuildName(cfg, ns_stack, full_name) ==
    IF ~cfg.process_namespaces THEN full_name
    ELSE IF ns_stack = <<>> THEN full_name
    ELSE LET ns_map == ns_stack[Len(ns_stack)]
             sp == SplitOnce(full_name, COLON)
             prefix == IF sp.found THEN sp.pre ELSE <<>>
             name == IF sp.found THEN sp.post ELSE full_name
         IN IF prefix \in DOMAIN ns_map
            THEN LET uri == ns_map[prefix]
                     mapped == IF cfg.namespaces.some /\ uri \in DOMAIN cfg.namespaces.map
                               THEN cfg.namespaces.map[uri]
                               ELSE uri
                 IN IF mapped = <<>> THEN name
                    ELSE mapped \o cfg.namespace_separator \o name
            ELSE full_name

(***************************************************************************)
(* XmlParser: the handlers, as functions of the parser's fields            *)
(*   p = [stack, path, text_stack, namespace_stack]                        *)
(* Each returns the fields as the handler leaves them, the error it        *)
(* returns ("" for Ok) and the hook invocations it made.                   *)
(***************************************************************************)
Last(s) == s[Len(s)]
Front(s) == SubSeq(s, 1, Len(s) - 1)

NewParser == [stack |-> <<>>, path |-> <<>>, text_stack |-> <<>>, namespace_stack |-> <<>>]

Done(p, log, kid) == [p |-> p, err |-> "", log |-> log, kid |-> kid]
Fail(p, msg, log) == [p |-> p, err |-> msg, log |-> log, kid |-> <<>>]

\* history: the entry a push_data call merged (none if it merged nothing)
Kid(of, pd) ==
    IF pd.merged
    THEN <<[of |-> of, key |-> pd.key, val |-> pd.val, raw |-> pd.raw, ans |-> pd.ans]>>
    ELSE <<>>

\* quick_xml QName::as_namespace_binding: xmlns -> Default, xmlns:p -> Named(p)
AsNamespaceBinding(key) ==
    IF key = XMLNS THEN [is |-> TRUE, default |-> TRUE, name |-> <<>>]
    ELSE IF StartsWith(key, XMLNS \o <<COLON>>)
    THEN [is |-> TRUE, default |-> FALSE, name |-> SubSeq(key, Len(XMLNS) + 2, Len(key))]
    ELSE [is |-> FALSE, default |-> FALSE, name |-> <<>>]

\* start_element, first loop: one attribute against the scan state
\*   acc = [ns: current_ns_map, set: set_xmlns_item, normal: normal_attrs]
ScanAttr(cfg, acc, attr) ==
    LET b == AsNamespaceBinding(attr.key) IN
    IF cfg.process_namespaces /\ b.is
    THEN IF b.default
         THEN [acc EXCEPT !.ns = NsInsert(acc.ns, <<>>, attr.value)]
         ELSE [acc EXCEPT
                 !.set = IF ~acc.set /\ cfg.namespaces.some
                         THEN attr.value \notin DOMAIN cfg.namespaces.map
                         ELSE acc.set,
                 !.ns = NsInsert(acc.ns, b.name, attr.value)]
    ELSE LET sp == SplitOnce(attr.key, COLON)
             marks ==
                 /\ cfg.process_namespaces
                 /\ ~acc.set
                 /\ sp.found
                 /\ sp.pre \in DOMAIN acc.ns
                 /\ (cfg.namespaces.some => acc.ns[sp.pre] \notin DOMAIN cfg.namespaces.map)
         IN [acc EXCEPT !.set = acc.set \/ marks,
                        !.normal = Append(acc.normal, attr)]

RECURSIVE ScanAttrs(_, _, _)
ScanAttrs(cfg, acc, attrs) ==
    IF attrs = <<>> THEN acc
    ELSE ScanAttrs(cfg, ScanAttr(cfg, acc, Head(attrs)), Tail(attrs))

\* the namespace mapping as a PyDict, in the HashMap's iteration order:
\* ord lists the prefixes in that (unspecified) order
RECURSIVE NsDict(_, _)
NsDict(m, ord) ==
    IF ord = <<>> THEN <<>>
    ELSE IF Head(ord) \in DOMAIN m
    THEN <<[key |-> Head(ord), val |-> Txt(m[Head(ord)])]>> \o NsDict(m, Tail(ord))
    ELSE NsDict(m, Tail(ord))

\* start_element, second loop: normal attributes i.. into the element dict
RECURSIVE AttrLoop(_, _, _, _, _, _, _)
AttrLoop(cfg, p, normal, i, dict, log, hs) ==
    IF i > Len(normal) THEN [dict |-> dict, log |-> log, raised |-> FALSE]
    ELSE LET key == normal[i].key
             attr_local_name ==
                 IF cfg.process_namespaces /\ Contains(key, cfg.namespace_separator)
                 THEN BuildName(cfg, p.namespace_stack, key)
                 ELSE key
             prefixed_key == cfg.attr_prefix \o attr_local_name
             pp == ApplyPostprocessor(cfg, p.path, prefixed_key, Txt(normal[i].value), hs[i])
         IN IF pp.raised THEN [dict |-> dict, log |-> log \o pp.log, raised |-> TRUE]
            ELSE IF ~pp.some THEN AttrLoop(cfg, p, normal, i + 1, dict, log \o pp.log, hs)
            ELSE AttrLoop(cfg, p, normal, i + 1, DictSet(dict, pp.key, pp.val),
                          log \o pp.log, hs)

\* a start_element that pushes the element's name on the path before it
\* handles the attributes
StartElementPathFirst(cfg, p, name, attrs, ord, hs) ==
    LET inherited == IF p.namespace_stack = <<>> THEN EmptyNs ELSE Last(p.namespace_stack)
        acc0 == [ns |-> inherited, set |-> FALSE, normal |-> <<>>]
        acc == IF cfg.xml_attribs /\ attrs # <<>> THEN ScanAttrs(cfg, acc0, attrs) ELSE acc0
        dict0 == IF cfg.xml_attribs /\ acc.set
                 THEN <<[key |-> cfg.attr_prefix \o XMLNS, val |-> Map(NsDict(acc.ns, ord))]>>
                 ELSE <<>>
        p0 == [p EXCEPT !.namespace_stack = Append(p.namespace_stack, acc.ns)]
        element_name == IF cfg.process_namespaces
                        THEN BuildName(cfg, p0.namespace_stack, name)
                        ELSE name
        p1 == [p0 EXCEPT !.path = Append(p.path, element_name)]
        loop == IF cfg.xml_attribs
                THEN AttrLoop(cfg, p1, acc.normal, 1, dict0, <<>>, hs)
                ELSE [dict |-> dict0, log |-> <<>>, raised |-> FALSE]
    IN IF loop.raised THEN Fail(p1, ErrHook, loop.log)
       ELSE Done([p1 EXCEPT !.stack = Append(p.stack, loop.dict),
                            !.text_stack = Append(p.text_stack, <<>>)],
                 loop.log, <<>>)

\* XmlParser::start_element
StartElement(cfg, p, name, attrs, ord, hs) ==
    LET inherited == IF p.namespace_stack = <<>> THEN EmptyNs ELSE Last(p.namespace_stack)
        acc0 == [ns |-> inherited, set |-> FALSE, normal |-> <<>>]
        acc == IF cfg.xml_attribs /\ attrs # <<>> THEN ScanAttrs(cfg, acc0, attrs) ELSE acc0
        dict0 == IF cfg.xml_attribs /\ acc.set
                 THEN <<[key |-> cfg.attr_prefix \o XMLNS, val |-> Map(NsDict(acc.ns, ord))]>>
                 ELSE <<>>
        p1 == [p EXCEPT !.namespace_stack = Append(p.namespace_stack, acc.ns)]
        loop == IF cfg.xml_attribs
                THEN AttrLoop(cfg, p1, acc.normal, 1, dict0, <<>>, hs)
                ELSE [dict |-> dict0, log |-> <<>>, raised |-> FALSE]
        element_name == IF cfg.process_namespaces
                        THEN BuildName(cfg, p1.namespace_stack, name)
                        ELSE name
    IN IF loop.raised THEN Fail(p1, ErrHook, loop.log)
       ELSE Done([p1 EXCEPT !.stack = Append(p.stack, loop.dict),
                            !.path = Append(p.path, element_name),
                            !.text_stack = Append(p.text_stack, <<>>)],
                 loop.log, <<>>)

\* a text of the closing element that is trimmed when strip_whitespace is on
TextContentTrimmed(cfg, text_parts) ==
    IF text_parts = <<>> THEN [some |-> FALSE, text |-> <<>>]
    ELSE LET joined == Join(text_parts, cfg.cdata_separator) IN
         IF cfg.strip_whitespace /\ Trim(joined) = <<>>
         THEN [some |-> FALSE, text |-> <<>>]
         ELSE [some |-> TRUE, text |-> IF cfg.strip_whitespace THEN Trim(joined) ELSE joined]

\* end_element: the text of the closing element (None or Some(joined))
TextContent(cfg, text_parts) ==
    IF text_parts = <<>> THEN [some |-> FALSE, text |-> <<>>]
    ELSE LET joined == Join(text_parts, cfg.cdata_separator) IN
         IF cfg.strip_whitespace /\ Trim(joined) = <<>>
         THEN [some |-> FALSE, text |-> <<>>]
         ELSE [some |-> TRUE, text |-> joined]

\* a final value that wraps the text of an element without attributes and
\* children whatever force_cdata is
FinalValueAlwaysWraps(cfg, pth, element_dict, tc, oText) ==
    LET has_attrs == element_dict # <<>>
        pp == ApplyPostprocessor(cfg, pth, cfg.cdata_key, Txt(tc.text), oText)
    IN CASE ~has_attrs /\ ~tc.some -> [val |-> Null, raised |-> FALSE, log |-> <<>>]
         [] ~has_attrs /\ tc.some ->
                [val |-> IF pp.some THEN Map(DictSet(<<>>, pp.key, pp.val)) ELSE Map(<<>>),
                 raised |-> pp.raised, log |-> pp.log]
         [] has_attrs /\ tc.some ->
                [val |-> IF pp.some THEN Map(DictSet(element_dict, pp.key, pp.val))
                         ELSE Map(element_dict),
                 raised |-> pp.raised, log |-> pp.log]
         [] OTHER -> [val |-> Map(element_dict), raised |-> FALSE, log |-> <<>>]

\* a final value that leaves the text out of an element with attributes
FinalValueNoText(cfg, pth, element_dict, tc, oText) ==
    [val |-> IF element_dict # <<>> THEN Map(element_dict)
             ELSE IF tc.some THEN Txt(tc.text) ELSE Null,
     raised |-> FALSE, log |-> <<>>]

\* end_element: the closing element's final value; oText is the hook's
\* outcome for the text entry
FinalValue(cfg, pth, element_dict, tc, oText) ==
    LET has_attrs == element_dict # <<>>
        pp == ApplyPostprocessor(cfg, pth, cfg.cdata_key, Txt(tc.text), oText)
    IN CASE ~has_attrs /\ ~tc.some -> [val |-> Null, raised |-> FALSE, log |-> <<>>]
         [] ~has_attrs /\ tc.some /\ ~cfg.force_cdata ->
                [val |-> Txt(tc.text), raised |-> FALSE, log |-> <<>>]
         [] ~has_attrs /\ tc.some /\ cfg.force_cdata ->
                [val |-> IF pp.some THEN Map(DictSet(<<>>, pp.key, pp.val)) ELSE Map(<<>>),
                 raised |-> pp.raised, log |-> pp.log]
         [] has_attrs /\ tc.some ->
                [val |-> IF pp.some THEN Map(DictSet(element_dict, pp.key, pp.val))
                         ELSE Map(element_dict),
                 raised |-> pp.raised, log |-> pp.log]
         [] OTHER -> [val |-> Map(element_dict), raised |-> FALSE, log |-> <<>>]

\* an end of element that leaves the namespace mapping on its stack
EndElementFinishKeepsNs(cfg, p, element_name, fv, oElem, f) ==
    IF p.stack = <<>>
    THEN LET pp == ApplyPostprocessor(cfg, p.path, element_name, fv.val, oElem)
             log == fv.log \o pp.log
         IN IF pp.raised THEN Fail(p, ErrHook, log)
            ELSE IF ~pp.some THEN Done(p, log, <<>>)
            ELSE Done([p EXCEPT !.stack = <<DictSet(<<>>, pp.key, pp.val)>>], log, <<>>)
    ELSE LET pd == PushData(cfg, p.path, Last(p.stack), element_name, fv.val, oElem, f)
             log == fv.log \o pd.log
         IN IF pd.raised THEN Fail(p, ErrHook, log)
            ELSE Done([p EXCEPT !.stack = Append(Front(p.stack), pd.item)], log,
                      Kid("element", pd))

\* end_element, lines 355-377: the value becomes the root or is merged into
\* the parent, then the namespace mapping is popped
EndElementFinish(cfg, p, element_name, fv, oElem, f) ==
    IF p.stack = <<>>
    THEN LET pp == ApplyPostprocessor(cfg, p.path, element_name, fv.val, oElem)
             log == fv.log \o pp.log
         IN IF pp.raised THEN Fail(p, ErrHook, log)
            ELSE IF ~pp.some THEN Done(p, log, <<>>)
            ELSE LET p1 == [p EXCEPT !.stack = <<DictSet(<<>>, pp.key, pp.val)>>] IN
                 IF p1.namespace_stack = <<>> THEN Fail(p1, ErrUnexpectedClose, log)
                 ELSE Done([p1 EXCEPT !.namespace_stack = Front(p1.namespace_stack)],
                           log, <<>>)
    ELSE LET pd == PushData(cfg, p.path, Last(p.stack), element_name, fv.val, oElem, f)
             log == fv.log \o pd.log
             p1 == [p EXCEPT !.stack = Append(Front(p.stack), pd.item)]
         IN IF pd.raised THEN Fail(p, ErrHook, log)
            ELSE IF p1.namespace_stack = <<>> THEN Fail(p1, ErrUnexpectedClose, log)
            ELSE Done([p1 EXCEPT !.namespace_stack = Front(p1.namespace_stack)], log,
                      Kid("element", pd))

\* XmlParser::end_element
EndElementOuterNs(cfg, p, name, oText, oElem, f) ==
    LET element_name == BuildName(cfg, IF p.namespace_stack = <<>> THEN <<>>
                                       ELSE Front(p.namespace_stack), name) IN
    IF p.stack = <<>> THEN Fail(p, ErrUnexpectedClose, <<>>)
    ELSE LET p1 == [p EXCEPT !.stack = Front(p.stack)] IN
    IF p.text_stack = <<>> THEN Fail(p1, ErrUnexpectedClose, <<>>)
    ELSE LET p2 == [p1 EXCEPT !.text_stack = Front(p.text_stack)] IN
    IF p.path = <<>> THEN Fail(p2, ErrUnexpectedClose, <<>>)
    ELSE LET p3 == [p2 EXCEPT !.path = Front(p.path)]
             tc == TextContent(cfg, Last(p.text_stack))
             fv == FinalValue(cfg, p3.path, Last(p.stack), tc, oText)
         IN IF fv.raised THEN Fail(p3, ErrHook, fv.log)
            ELSE EndElementFinish(cfg, p3, element_name, fv, oElem, f)

EndElement(cfg, p, name, oText, oElem, f) ==
    LET element_name == BuildName(cfg, p.namespace_stack, name) IN
    IF p.stack = <<>> THEN Fail(p, ErrUnexpectedClose, <<>>)
    ELSE LET p1 == [p EXCEPT !.stack = Front(p.stack)] IN
    IF p.text_stack = <<>> THEN Fail(p1, ErrUnexpectedClose, <<>>)
    ELSE LET p2 == [p1 EXCEPT !.text_stack = Front(p.text_stack)] IN
    IF p.path = <<>> THEN Fail(p2, ErrUnexpectedClose, <<>>)
    ELSE LET p3 == [p2 EXCEPT !.path = Front(p.path)]
             tc == TextContent(cfg, Last(p.text_stack))
             fv == FinalValue(cfg, p3.path, Last(p.stack), tc, oText)
         IN IF fv.raised THEN Fail(p3, ErrHook, fv.log)
            ELSE EndElementFinish(cfg, p3, element_name, fv, oElem, f)

\* XmlParser::characters
Characters(p, data) ==
    IF p.text_stack = <<>> THEN p
    ELSE [p EXCEPT !.text_stack = Append(Front(p.text_stack), Append(Last(p.text_stack), data))]

\* a comment handler that never trims
CommentEventRaw(cfg, p, comment, oElem, f) ==
    IF p.stack = <<>> THEN Done(p, <<>>, <<>>)
    ELSE LET comment_py == Txt(comment)
             pd == PushData(cfg, p.path, Last(p.stack), cfg.comment_key, comment_py, oElem, f)
         IN IF pd.raised THEN Fail(p, ErrHook, pd.log)
            ELSE Done([p EXCEPT !.stack = Append(Front(p.stack), pd.item)], pd.log,
                      Kid("comment", pd))

\* XmlParser::comment
CommentEvent(cfg, p, comment, oElem, f) ==
    IF p.stack = <<>> THEN Done(p, <<>>, <<>>)
    ELSE LET comment_py == IF cfg.strip_whitespace THEN Txt(Trim(comment)) ELSE Txt(comment)
             pd == PushData(cfg, p.path, Last(p.stack), cfg.comment_key, comment_py, oElem, f)
         IN IF pd.raised THEN Fail(p, ErrHook, pd.log)
            ELSE Done([p EXCEPT !.stack = Append(Front(p.stack), pd.item)], pd.log,
                      Kid("comment", pd))

\* validate_element_name
ValidElementName(name) ==
    /\ name # <<>>
    /\ \A i \in 1..Len(name) : name[i] \notin {"<", ">"}

(***************************************************************************)
(* parse_xml_with_reader: the loop over the tokenizer's events             *)
(***************************************************************************)
MaxNodes == 5

Parser == [stack |-> stack, path |-> path, text_stack |-> text_stack,
           namespace_stack |-> namespace_stack]

\* what the foreign callables may do when they are called
PostOutcomes(cfg) == IF cfg.postprocessor = {} THEN {"keep"} ELSE cfg.postprocessor
ForceOutcomes(cfg) == IF cfg.force_list.shape = "pred" THEN {"yes", "no", "raise"}
                      ELSE {"no"}

\* the iteration orders a HashMap over the document's prefixes can have
Orders(S) == {o \in [1..Cardinality(S) -> S] : \A i, j \in 1..Cardinality(S) : o[i] = o[j] => i = j}

\* final checks that return whatever dict lies at the bottom of the stack
FinishLenient(p) ==
    IF p.stack = <<>>
    THEN [status |-> "ok", error |-> "", result |-> Map(<<>>)]
    ELSE [status |-> "ok", error |-> "", result |-> Map(p.stack[1])]

\* the event loop's final checks, after Event::Eof
Finish(p) ==
    IF p.path # <<>> \/ p.text_stack # <<>> \/ p.namespace_stack # <<>>
    THEN [status |-> "err", error |-> ErrUnclosed, result |-> NoValue]
    ELSE IF Len(p.stack) = 1
    THEN [status |-> "ok", error |-> "", result |-> Map(p.stack[1])]
    ELSE IF p.stack = <<>>
    THEN [status |-> "err", error |-> ErrNoElement, result |-> NoValue]
    ELSE [status |-> "err", error |-> ErrUnclosed, result |-> NoValue]

StartArmUnchecked(cfg, p, name, attrs, ord, hs) ==
    StartElement(cfg, p, name, attrs, ord, hs)

\* Event::Start arm. The reader is configured with expand_empty_elements, so an
\* empty-element tag arrives as a Start event followed by an End event and the
\* Event::Empty arm receives no event.
StartArm(cfg, p, name, attrs, ord, hs) ==
    IF ~ValidElementName(name) THEN Fail(p, ErrInvalidName, <<>>)
    ELSE StartElement(cfg, p, name, attrs, ord, hs)

\* Event::End arm
EndArm(cfg, p, name, oText, oElem, f) ==
    IF ~ValidElementName(name) THEN Fail(p, ErrInvalidName, <<>>)
    ELSE EndElement(cfg, p, name, oText, oElem, f)

\* parse_xml_with_reader returns: its local XmlParser is dropped
Return(st, err, res) ==
    /\ status' = st
    /\ error' = err
    /\ result' = res
    /\ stack' = <<>>
    /\ path' = <<>>
    /\ text_stack' = <<>>
    /\ namespace_stack' = <<>>
    /\ kids' = <<>>

\* a handler returned r: the loop goes on with the parser as the handler left
\* it (ks: the merge history after it), or the call returns the handler's error
Continue(r, ks) ==
    /\ hookLog' = r.log
    /\ IF r.err = ""
       THEN /\ stack' = r.p.stack
            /\ path' = r.p.path
            /\ text_stack' = r.p.text_stack
            /\ namespace_stack' = r.p.namespace_stack
            /\ kids' = ks
            /\ UNCHANGED <<status, error, result>>
       ELSE Return("err", r.err, NoValue)

\* history of the merges: a dict was pushed
KidsPush == Append(kids, <<>>)
\* history of the merges: the innermost dict was popped and r.kid merged below it
KidsPop(ks, r) ==
    IF Len(ks) <= 1
    THEN (IF r.p.stack = <<>> THEN <<>> ELSE << <<>> >>)
    ELSE Append(SubSeq(ks, 1, Len(ks) - 2), ks[Len(ks) - 1] \o r.kid)

EvStart ==
    /\ status = "running"
    /\ nodes < MaxNodes
    /\ \E tag \in vocab.tags, ord \in Orders(vocab.prefixes) :
       \E hs \in [1..Len(tag.attrs) -> PostOutcomes(config)] :
       \E r \in {StartArm(config, Parser, tag.name, tag.attrs, ord, hs)} :
          /\ Continue(r, KidsPush)
          /\ opened' = IF r.err = "" THEN Append(opened, tag) ELSE opened
          /\ tagName' = Txt(tag.name)
    /\ nodes' = nodes + 1
    /\ event' = "start"
    /\ lastMerge' = NoValue
    /\ UNCHANGED <<config, vocab, rootsClosed, unparseVars, auxVars>>

\* Event::End. The reader is configured with check_end_names, so an end tag
\* reaches the builder only when it closes the innermost open tag; any other
\* end tag is the tokenizer's EndEventMismatch error (EvTokenizerError).
EvEnd ==
    /\ status = "running"
    /\ opened # <<>>
    /\ \E oText \in PostOutcomes(config), oElem \in PostOutcomes(config),
          f \in ForceOutcomes(config) :
       \E r \in {EndArm(config, Parser, Last(opened).name, oText, oElem, f)} :
          /\ Continue(r, KidsPop(kids, r))
          /\ opened' = IF r.err # "" THEN opened ELSE Front(opened)
          /\ rootsClosed' = IF r.err = "" /\ Len(opened) = 1 THEN rootsClosed + 1
                            ELSE rootsClosed
          /\ lastMerge' = IF Len(stack) >= 2
                          THEN [of |-> "element", item |-> stack[Len(stack) - 1], o |-> oElem]
                          ELSE NoValue
    /\ event' = "end"
    /\ tagName' = Txt(Last(opened).name)
    /\ UNCHANGED <<config, vocab, nodes, unparseVars, auxVars>>

\* Event::Text: the reader trims text and skips empty text when trim_text is on
EvText ==
    /\ status = "running"
    /\ nodes < MaxNodes
    /\ \E t \in vocab.texts :
       \E data \in {IF config.strip_whitespace THEN Trim(t) ELSE t} :
          /\ data # <<>>
          /\ Continue(Done(Characters(Parser, data), <<>>, <<>>), kids)
    /\ nodes' = nodes + 1
    /\ event' = "text"
    /\ tagName' = NoValue
    /\ lastMerge' = NoValue
    /\ UNCHANGED <<config, vocab, opened, rootsClosed, unparseVars, auxVars>>

\* Event::CData: delivered as written
EvCData ==
    /\ status = "running"
    /\ nodes < MaxNodes
    /\ \E t \in vocab.cdatas :
          Continue(Done(Characters(Parser, t), <<>>, <<>>), kids)
    /\ nodes' = nodes + 1
    /\ event' = "cdata"
    /\ tagName' = NoValue
    /\ lastMerge' = NoValue
    /\ UNCHANGED <<config, vocab, opened, rootsClosed, unparseVars, auxVars>>

\* Event::Comment: handled only if process_comments, skipped otherwise
EvComment ==
    /\ status = "running"
    /\ nodes < MaxNodes
    /\ \E c \in vocab.comments :
       \E oElem \in PostOutcomes(config), f \in ForceOutcomes(config) :
       \E r \in {IF config.process_comments
                 THEN CommentEvent(config, Parser, c, oElem, f)
                 ELSE Done(Parser, <<>>, <<>>)} :
          /\ Continue(r, IF kids # <<>> THEN Append(Front(kids), Last(kids) \o r.kid)
                         ELSE kids)
          /\ lastMerge' = IF config.process_comments /\ stack # <<>>
                          THEN [of |-> "comment", item |-> Last(stack), o |-> oElem]
                          ELSE NoValue
    /\ nodes' = nodes + 1
    /\ event' = "comment"
    /\ tagName' = NoValue
    /\ UNCHANGED <<config, vocab, opened, rootsClosed, unparseVars, auxVars>>

\* Err(e) for an end tag that closes nothing: with check_end_names the tokenizer
\* compares each end tag with the innermost open tag and returns
\* Error::EndEventMismatch when they differ or when no tag is open, so the
\* Event::End arm never sees such a tag. Were the check off, the tag would be
\* delivered to the Event::End arm.
EvEndMismatch ==
    /\ status = "running"
    /\ \E tag \in vocab.tags :
          /\ (IF opened = <<>> THEN TRUE ELSE Last(opened).name # tag.name)
          /\ tagName' = Txt(tag.name)
          /\ IF CheckEndNames
             THEN /\ Return("err", ErrEndMismatch, NoValue)
                  /\ hookLog' = <<>>
                  /\ UNCHANGED <<opened, rootsClosed>>
             ELSE \E oText \in PostOutcomes(config), oElem \in PostOutcomes(config),
                     f \in ForceOutcomes(config) :
                  \E r \in {EndArm(config, Parser, tag.name, oText, oElem, f)} :
                     /\ Continue(r, KidsPop(kids, r))
                     /\ opened' = IF r.err # "" \/ opened = <<>> THEN opened
                                   ELSE Front(opened)
                     /\ rootsClosed' = IF r.err = "" /\ Len(opened) = 1
                                       THEN rootsClosed + 1 ELSE rootsClosed
    /\ event' = "end_mismatch"
    /\ lastMerge' = NoValue
    /\ UNCHANGED <<config, vocab, nodes, unparseVars, auxVars>>

\* Err(e): the tokenizer rejects the input
EvTokenizerError ==
    /\ status = "running"
    /\ Return("err", ErrTokenizer, NoValue)
    /\ hookLog' = <<>>
    /\ event' = "error"
    /\ tagName' = NoValue
    /\ lastMerge' = NoValue
    /\ UNCHANGED <<config, vocab, opened, rootsClosed, nodes, unparseVars, auxVars>>

\* Event::Eof: the loop ends and the final checks decide the outcome
EvEof ==
    /\ status = "running"
    /\ \E fin \in {Finish(Parser)} : Return(fin.status, fin.error, fin.result)
    /\ hookLog' = <<>>
    /\ event' = "eof"
    /\ tagName' = NoValue
    /\ lastMerge' = NoValue
    /\ UNCHANGED <<config, vocab, opened, rootsClosed, nodes, unparseVars, auxVars>>

(***************************************************************************)
(* Escaping (escape.rs)                                                    *)
(***************************************************************************)
ESCAPED_AMP == <<"&", "a", "m", "p", ";">>
ESCAPED_LT == <<"&", "l", "t", ";">>
ESCAPED_GT == <<"&", "g", "t", ";">>
ESCAPED_QUOT == <<"&", "q", "u", "o", "t", ";">>

\* escape_xml, the loop over the bytes: i is the index of the byte looked at
\* (from 1), last_pos the number of bytes already copied or replaced
RECURSIVE EscapeXmlLoop(_, _, _, _)
EscapeXmlLoop(text, i, last_pos, res) ==
    IF i > Len(text) THEN [last_pos |-> last_pos, res |-> res]
    ELSE IF text[i] \in {"&", "<", ">"}
    THEN LET copied == IF last_pos < i - 1 THEN res \o SubSeq(text, last_pos + 1, i - 1)
                       ELSE res
             escaped == CASE text[i] = "&" -> ESCAPED_AMP
                          [] text[i] = "<" -> ESCAPED_LT
                          [] OTHER -> ESCAPED_GT
         IN EscapeXmlLoop(text, i + 1, i, copied \o escaped)
    ELSE EscapeXmlLoop(text, i + 1, last_pos, res)

\* an escape_xml that leaves '>' as it is
EscapeXmlKeepsGt(text) ==
    LET Piece(c) == CASE c = "&" -> ESCAPED_AMP [] c = "<" -> ESCAPED_LT [] OTHER -> <<c>>
        F[i \in 0..Len(text)] == IF i = 0 THEN <<>> ELSE F[i - 1] \o Piece(text[i])
    IN F[Len(text)]

\* an escape_xml that leaves '&' as it is
EscapeXmlKeepsAmp(text) ==
    LET Piece(c) == CASE c = "<" -> ESCAPED_LT [] c = ">" -> ESCAPED_GT [] OTHER -> <<c>>
        F[i \in 0..Len(text)] == IF i = 0 THEN <<>> ELSE F[i - 1] \o Piece(text[i])
    IN F[Len(text)]

\* escape_xml
EscapeXml(text) ==
    LET need_escape == \E i \in 1..Len(text) : text[i] \in {"&", "<", ">"}
        loop == EscapeXmlLoop(text, 1, 0, <<>>)
    IN IF ~need_escape THEN text
       ELSE IF loop.last_pos < Len(text)
       THEN loop.res \o SubSeq(text, loop.last_pos + 1, Len(text))
       ELSE loop.res

\* escape_xml_attr, the loop over the chars: res (the code's result) is None ([some |-> FALSE])
\* until the first character that needs escaping
RECURSIVE EscapeXmlAttrLoop(_, _, _, _)
EscapeXmlAttrLoop(text, i, last_pos, res) ==
    IF i > Len(text) THEN [last_pos |-> last_pos, res |-> res]
    ELSE IF text[i] \in {"&", "<", ">", "\""}
    THEN LET is_first_escape == ~res.some
             s0 == IF is_first_escape THEN SubSeq(text, 1, i - 1) ELSE res.s
             s1 == IF ~is_first_escape THEN s0 \o SubSeq(text, last_pos + 1, i - 1) ELSE s0
             escaped == CASE text[i] = "&" -> ESCAPED_AMP
                          [] text[i] = "<" -> ESCAPED_LT
                          [] text[i] = ">" -> ESCAPED_GT
                          [] OTHER -> ESCAPED_QUOT
         IN EscapeXmlAttrLoop(text, i + 1, i, [some |-> TRUE, s |-> s1 \o escaped])
    ELSE EscapeXmlAttrLoop(text, i + 1, last_pos, res)

\* escape_xml_attr
EscapeXmlAttr(text) ==
    LET loop == EscapeXmlAttrLoop(text, 1, 0, [some |-> FALSE, s |-> <<>>]) IN
    IF ~loop.res.some THEN text
    ELSE IF loop.last_pos < Len(text)
    THEN loop.res.s \o SubSeq(text, loop.last_pos + 1, Len(text))
    ELSE loop.res.s

\* the strings given to the escaping functions
MaxEscapeLen == 3
EscapeAlphabet == {"&", "<", ">", "\"", "a", ";"}
EscapeInputs == UNION {[1..n -> EscapeAlphabet] : n \in 0..MaxEscapeLen}

\* escape_xml(eInput) and escape_xml_attr(eInput) are called
Escape ==
    /\ eOutput = NoValue
    /\ eOutput' = [k |-> "escaped", text |-> EscapeXml(eInput), attr |-> EscapeXmlAttr(eInput)]
    /\ UNCHANGED <<parseVars, unparseVars, eInput, readerVars>>

(***************************************************************************)
(* XmlWriter (unparser.rs) and unparse                                     *)
(***************************************************************************)
Bool(b) == [k |-> "bool", b |-> b]

TRUE_TEXT == <<"t", "r", "u", "e">>
FALSE_TEXT == <<"f", "a", "l", "s", "e">>

\* Python repr() / str() of the objects a tree holds (strings without quotes,
\* backslashes or control characters)
RECURSIVE PyRepr(_)
RECURSIVE PyReprEntries(_, _)
RECURSIVE PyReprItems(_, _)
PyRepr(v) ==
    CASE v.k = "null" -> <<"N", "o", "n", "e">>
      [] v.k = "bool" -> IF v.b THEN <<"T", "r", "u", "e">> ELSE <<"F", "a", "l", "s", "e">>
      [] v.k = "text" -> <<"'">> \o v.s \o <<"'">>
      [] v.k = "map" -> <<"{">> \o PyReprEntries(v.e, 1) \o <<"}">>
      [] OTHER -> <<"[">> \o PyReprItems(v.items, 1) \o <<"]">>
PyReprEntries(e, i) ==
    IF i > Len(e) THEN <<>>
    ELSE (IF i > 1 THEN <<",", " ">> ELSE <<>>)
         \o <<"'">> \o e[i].key \o <<"'", ":", " ">> \o PyRepr(e[i].val)
         \o PyReprEntries(e, i + 1)
PyReprItems(items, i) ==
    IF i > Len(items) THEN <<>>
    ELSE (IF i > 1 THEN <<",", " ">> ELSE <<>>) \o PyRepr(items[i]) \o PyReprItems(items, i + 1)

\* PyAny::str()
PyStr(v) == IF v.k = "text" THEN v.s ELSE PyRepr(v)

ScalarTextStr(v) == PyStr(v)

\* the text of an attribute or text entry: booleans as true / false
ScalarText(v) ==
    IF v.k = "bool" THEN (IF v.b THEN TRUE_TEXT ELSE FALSE_TEXT) ELSE PyStr(v)

RECURSIVE Repeat(_, _)
Repeat(unit, n) == IF n = 0 THEN <<>> ELSE unit \o Repeat(unit, n - 1)

\* XmlWriter::write_indent
WriteIndent(uc, indent_level) == IF uc.pretty THEN Repeat(uc.indent, indent_level) ELSE <<>>

WriteHeaderPrettyNewline(uc) ==
    IF uc.full_document
    THEN <<"<", "?", "x", "m", "l", " ", "v", "e", "r", "s", "i", "o", "n", "=", "\"",
           "1", ".", "0", "\"", " ", "e", "n", "c", "o", "d", "i", "n", "g", "=", "\"">>
         \o uc.encoding \o <<"\"", "?", ">">> \o (IF uc.pretty THEN uc.newl ELSE <<>>)
    ELSE <<>>

\* XmlWriter::write_header
WriteHeader(uc) ==
    IF uc.full_document
    THEN <<"<", "?", "x", "m", "l", " ", "v", "e", "r", "s", "i", "o", "n", "=", "\"",
           "1", ".", "0", "\"", " ", "e", "n", "c", "o", "d", "i", "n", "g", "=", "\"">>
         \o uc.encoding \o <<"\"", "?", ">">> \o uc.newl
    ELSE <<>>

ApplyPreprocessorNeverNone(pre, key, data) ==
    [some |-> TRUE, raised |-> FALSE, key |-> key, val |-> data,
     log |-> IF pre.on THEN <<[key |-> key, val |-> data]>> ELSE <<>>]

\* XmlWriter::apply_preprocessor: pre tells what the foreign callable does
\* for each key
ApplyPreprocessor(pre, key, data) ==
    IF ~pre.on
    THEN [some |-> TRUE, raised |-> FALSE, key |-> key, val |-> data, log |-> <<>>]
    ELSE LET call == <<[key |-> key, val |-> data]>> IN
         IF key \in pre.raise
         THEN [some |-> FALSE, raised |-> TRUE, key |-> key, val |-> data, log |-> call]
         ELSE IF key \in pre.drop
         THEN [some |-> FALSE, raised |-> FALSE, key |-> key, val |-> data, log |-> call]
         ELSE [some |-> TRUE, raised |-> FALSE, key |-> key, val |-> data, log |-> call]

\* write_dict_element, first loop: the partition of the dict's entries
RECURSIVE Partition(_, _, _, _)
Partition(uc, dict, i, acc) ==
    IF i > Len(dict) THEN acc
    ELSE LET key_str == dict[i].key
             value == dict[i].val
         IN IF StartsWith(key_str, uc.attr_prefix)
            THEN Partition(uc, dict, i + 1,
                     [acc EXCEPT !.attributes =
                        Append(@, [name |-> SubSeq(key_str, Len(uc.attr_prefix) + 1, Len(key_str)),
                                   value |-> ScalarText(value)])])
            ELSE IF key_str = uc.cdata_key
            THEN Partition(uc, dict, i + 1,
                     [acc EXCEPT !.text_content = [some |-> TRUE, text |-> ScalarText(value)]])
            ELSE Partition(uc, dict, i + 1,
                     [acc EXCEPT !.child_elements = Append(@, dict[i])])

\* write_dict_element: the attributes inside the opening tag
RECURSIVE WriteAttributes(_, _)
WriteAttributes(attributes, i) ==
    IF i > Len(attributes) THEN <<>>
    ELSE <<" ">> \o attributes[i].name \o <<"=", "\"">>
         \o EscapeXmlAttr(attributes[i].value) \o <<"\"">>
         \o WriteAttributes(attributes, i + 1)

\* The writer's procedures return what they append to XmlWriter.output, the
\* preprocessor calls they make, and whether one of them raised.
RECURSIVE WriteElement(_, _, _, _, _, _)
RECURSIVE WriteList(_, _, _, _, _, _, _)
RECURSIVE WriteChildren(_, _, _, _, _)
RECURSIVE WriteDictElement(_, _, _, _, _)

\* XmlWriter::write_element
WriteElement(uc, pre, tag, value, needs_newline, indent_level) ==
    LET pp == ApplyPreprocessor(pre, tag, value) IN
    IF pp.raised THEN [out |-> <<>>, raised |-> TRUE, log |-> pp.log]
    ELSE IF ~pp.some THEN [out |-> <<>>, raised |-> FALSE, log |-> pp.log]
    ELSE
    LET final_tag == pp.key
        final_value == pp.val
        lead == IF uc.pretty /\ needs_newline
                THEN uc.newl \o WriteIndent(uc, indent_level) ELSE <<>>
        body ==
          CASE final_value.k = "null" ->
                 [out |-> IF uc.short_empty_elements
                          THEN <<"<">> \o final_tag \o <<"/", ">">>
                          ELSE <<"<">> \o final_tag \o <<">", "<", "/">> \o final_tag \o <<">">>,
                  raised |-> FALSE, log |-> <<>>]
            [] final_value.k = "map" ->
                 WriteDictElement(uc, pre, final_tag, final_value.e, indent_level)
            [] final_value.k = "list" ->
                 WriteList(uc, pre, final_tag, final_value.items, 1, needs_newline, indent_level)
            [] final_value.k = "bool" ->
                 [out |-> <<"<">> \o final_tag \o <<">">>
                          \o (IF final_value.b THEN TRUE_TEXT ELSE FALSE_TEXT)
                          \o <<"<", "/">> \o final_tag \o <<">">>,
                  raised |-> FALSE, log |-> <<>>]
            [] OTHER ->
                 [out |-> <<"<">> \o final_tag \o <<">">> \o EscapeXml(PyStr(final_value))
                          \o <<"<", "/">> \o final_tag \o <<">">>,
                  raised |-> FALSE, log |-> <<>>]
    IN [out |-> lead \o body.out, raised |-> body.raised, log |-> pp.log \o body.log]

\* write_element, the loop over a list's items from item i on
WriteList(uc, pre, tag, items, i, needs_newline, indent_level) ==
    IF i > Len(items) THEN [out |-> <<>>, raised |-> FALSE, log |-> <<>>]
    ELSE LET w == WriteElement(uc, pre, tag, items[i], i > 1 \/ needs_newline, indent_level) IN
         IF w.raised THEN w
         ELSE LET rest == WriteList(uc, pre, tag, items, i + 1, needs_newline, indent_level) IN
              [out |-> w.out \o rest.out, raised |-> rest.raised, log |-> w.log \o rest.log]

\* write_dict_element, the loop over child_elements from child i on
WriteChildren(uc, pre, children, i, indent_level) ==
    IF i > Len(children) THEN [out |-> <<>>, raised |-> FALSE, log |-> <<>>]
    ELSE LET w == WriteElement(uc, pre, children[i].key, children[i].val,
                               i > 1 \/ uc.pretty, indent_level) IN
         IF w.raised THEN w
         ELSE LET rest == WriteChildren(uc, pre, children, i + 1, indent_level) IN
              [out |-> w.out \o rest.out, raised |-> rest.raised, log |-> w.log \o rest.log]

\* a write_dict_element that never self-closes a mapping without content
WriteDictElementExpanded(uc, pre, tag, dict, indent_level) ==
    LET part == Partition(uc, dict, 1,
                    [attributes |-> <<>>, text_content |-> [some |-> FALSE, text |-> <<>>],
                     child_elements |-> <<>>])
        open == <<"<">> \o tag \o WriteAttributes(part.attributes, 1)
        text == IF part.text_content.some THEN EscapeXml(part.text_content.text) ELSE <<>>
        kidsOut == WriteChildren(uc, pre, part.child_elements, 1, indent_level + 1)
        tail == IF part.child_elements # <<>> /\ uc.pretty
                THEN uc.newl \o WriteIndent(uc, indent_level) ELSE <<>>
    IN IF kidsOut.raised
       THEN [out |-> open \o <<">">> \o text \o kidsOut.out,
             raised |-> TRUE, log |-> kidsOut.log]
       ELSE [out |-> open \o <<">">> \o text \o kidsOut.out \o tail
                      \o <<"<", "/">> \o tag \o <<">">>,
             raised |-> FALSE, log |-> kidsOut.log]

\* XmlWriter::write_dict_element
WriteDictElement(uc, pre, tag, dict, indent_level) ==
    LET part == Partition(uc, dict, 1,
                    [attributes |-> <<>>, text_content |-> [some |-> FALSE, text |-> <<>>],
                     child_elements |-> <<>>])
        open == <<"<">> \o tag \o WriteAttributes(part.attributes, 1)
    IN IF part.child_elements = <<>> /\ ~part.text_content.some
       THEN [out |-> open \o (IF uc.short_empty_elements THEN <<"/", ">">>
                              ELSE <<">", "<", "/">> \o tag \o <<">">>),
             raised |-> FALSE, log |-> <<>>]
       ELSE LET text == IF part.text_content.some THEN EscapeXml(part.text_content.text)
                        ELSE <<>>
                kidsOut == WriteChildren(uc, pre, part.child_elements, 1, indent_level + 1)
                tail == IF part.child_elements # <<>> /\ uc.pretty
                        THEN uc.newl \o WriteIndent(uc, indent_level) ELSE <<>>
            IN IF kidsOut.raised
               THEN [out |-> open \o <<">">> \o text \o kidsOut.out,
                     raised |-> TRUE, log |-> kidsOut.log]
               ELSE [out |-> open \o <<">">> \o text \o kidsOut.out \o tail
                              \o <<"<", "/">> \o tag \o <<">">>,
                     raised |-> FALSE, log |-> kidsOut.log]

\* unparse, the loop over input_dict's entries from entry i on
RECURSIVE WriteEntries(_, _, _, _)
WriteEntries(uc, pre, dict, i) ==
    IF i > Len(dict) THEN [out |-> <<>>, raised |-> FALSE, log |-> <<>>]
    ELSE LET w == WriteElement(uc, pre, dict[i].key, dict[i].val, i > 1, 0) IN
         IF w.raised THEN w
         ELSE LET rest == WriteEntries(uc, pre, dict, i + 1) IN
              [out |-> w.out \o rest.out, raised |-> rest.raised, log |-> w.log \o rest.log]

ErrRoot == "Document must have exactly one root"

\* an unparse that validates the root only after writing
UnparseCallLateCheck(uc, pre, input_dict) ==
    LET header == WriteHeader(uc)
        w == WriteEntries(uc, pre, input_dict, 1)
    IN IF w.raised
       THEN [status |-> "err", error |-> ErrHook, output |-> <<>>,
             written |-> header \o w.out, log |-> w.log]
       ELSE IF uc.full_document /\ Len(input_dict) # 1
       THEN [status |-> "err", error |-> ErrRoot, output |-> <<>>,
             written |-> header \o w.out, log |-> w.log]
       ELSE [status |-> "ok", error |-> "", output |-> header \o w.out,
             written |-> header \o w.out, log |-> w.log]

\* unparse: [status, error, output (the string returned), written (what the
\* writer held when the call ended), log (preprocessor calls)]
UnparseCall(uc, pre, input_dict) ==
    IF uc.full_document /\ Len(input_dict) = 0
    THEN [status |-> "err", error |-> ErrRoot, output |-> <<>>, written |-> <<>>, log |-> <<>>]
    ELSE IF uc.full_document /\ Len(input_dict) > 1
    THEN [status |-> "err", error |-> ErrRoot, output |-> <<>>, written |-> <<>>, log |-> <<>>]
    ELSE LET header == WriteHeader(uc)
             w == WriteEntries(uc, pre, input_dict, 1)
         IN IF w.raised
            THEN [status |-> "err", error |-> ErrHook, output |-> <<>>,
                  written |-> header \o w.out, log |-> w.log]
            ELSE [status |-> "ok", error |-> "", output |-> header \o w.out,
                  written |-> header \o w.out, log |-> w.log]

(***************************************************************************)
(* The tokenizer over a string (quick_xml's Reader as parse_xml_with_reader *)
(* configures it: trim_text, check_end_names, expand_empty_elements), and  *)
(* the whole parse of a string with no hooks.                              *)
(***************************************************************************)
\* the character each predefined entity stands for ("" when unknown)
EntityChar(name) ==
    CASE name = <<"a", "m", "p">> -> "&"
      [] name = <<"l", "t">> -> "<"
      [] name = <<"g", "t">> -> ">"
      [] name = <<"q", "u", "o", "t">> -> "\""
      [] name = <<"a", "p", "o", "s">> -> "'"
      [] OTHER -> ""

\* unescape: [ok, text]
RECURSIVE Unescape(_, _)
Unescape(raw, i) ==
    IF i > Len(raw) THEN [ok |-> TRUE, text |-> <<>>]
    ELSE IF raw[i] # "&"
    THEN LET rest == Unescape(raw, i + 1) IN
         [ok |-> rest.ok, text |-> <<raw[i]>> \o rest.text]
    ELSE LET j == IndexFrom(raw, ";", i) IN
         IF j = 0 \/ EntityChar(SubSeq(raw, i + 1, j - 1)) = ""
         THEN [ok |-> FALSE, text |-> <<>>]
         ELSE LET rest == Unescape(raw, j + 1) IN
              [ok |-> rest.ok, text |-> <<EntityChar(SubSeq(raw, i + 1, j - 1))>> \o rest.text]

\* index of the first whitespace character at or after i (0 when none)
RECURSIVE WhitespaceFrom(_, _)
WhitespaceFrom(r, i) ==
    IF i > Len(r) THEN 0
    ELSE IF IsWhitespace(r[i]) THEN i
    ELSE WhitespaceFrom(r, i + 1)

\* the attributes of a tag: key="value" pairs, values unescaped; [ok, attrs]
RECURSIVE LexAttrs(_)
LexAttrs(r0) ==
    LET r == TrimStart(r0) IN
    IF r = <<>> THEN [ok |-> TRUE, attrs |-> <<>>]
    ELSE LET eq == IndexFrom(r, "=", 1) IN
         IF eq <= 1 \/ eq + 1 > Len(r) \/ r[eq + 1] \notin {"\"", "'"}
         THEN [ok |-> FALSE, attrs |-> <<>>]
         ELSE LET close == IndexFrom(r, r[eq + 1], eq + 2) IN
              IF close = 0 THEN [ok |-> FALSE, attrs |-> <<>>]
              ELSE LET v == Unescape(SubSeq(r, eq + 2, close - 1), 1)
                       rest == LexAttrs(SubSeq(r, close + 1, Len(r)))
                       key == TrimEnd(SubSeq(r, 1, eq - 1))
                   IN [ok |-> v.ok /\ rest.ok
                                /\ \A i \in 1..Len(rest.attrs) : rest.attrs[i].key # key,
                       attrs |-> <<[key |-> key, value |-> v.text]>> \o rest.attrs]

\* the token that starts at position i of s: [kind, next, name, attrs, text]
LexToken(cfg, s, i) ==
    LET tok(kind, next, name, attrs, text) ==
            [kind |-> kind, next |-> next, name |-> name, attrs |-> attrs, text |-> text]
    IN
    IF i > Len(s) THEN tok("eof", i, <<>>, <<>>, <<>>)
    ELSE IF s[i] = "<"
    THEN LET j == IndexFrom(s, ">", i)
             body == SubSeq(s, i + 1, j - 1)
         IN IF j = 0 THEN tok("error", i, <<>>, <<>>, <<>>)
            ELSE IF body # <<>> /\ body[1] = "?" THEN tok("skip", j + 1, <<>>, <<>>, <<>>)
            ELSE IF body # <<>> /\ body[1] = "!" THEN tok("error", i, <<>>, <<>>, <<>>)
            ELSE IF body # <<>> /\ body[1] = "/"
            THEN tok("end", j + 1, TrimEnd(Tail(body)), <<>>, <<>>)
            ELSE LET empty == body # <<>> /\ body[Len(body)] = "/"
                     inner == IF empty THEN Front(body) ELSE body
                     w == WhitespaceFrom(inner, 1)
                     name == IF w = 0 THEN inner ELSE SubSeq(inner, 1, w - 1)
                     la == IF w = 0 THEN [ok |-> TRUE, attrs |-> <<>>]
                           ELSE LexAttrs(SubSeq(inner, w, Len(inner)))
                 IN IF ~la.ok THEN tok("error", i, <<>>, <<>>, <<>>)
                    ELSE tok(IF empty THEN "empty" ELSE "start", j + 1, name, la.attrs, <<>>)
    ELSE LET j == IndexFrom(s, "<", i)
             stop == IF j = 0 THEN Len(s) + 1 ELSE j
             u == Unescape(SubSeq(s, i, stop - 1), 1)
             text == IF cfg.strip_whitespace THEN Trim(u.text) ELSE u.text
         IN IF ~u.ok THEN tok("error", i, <<>>, <<>>, <<>>)
            ELSE IF text = <<>> THEN tok("skip", stop, <<>>, <<>>, <<>>)
            ELSE tok("text", stop, <<>>, <<>>, text)

NoHooks(n) == [i \in 1..n |-> "keep"]

ParseFailed(msg) == [status |-> "err", error |-> msg, result |-> NoValue]

\* parse_xml_with_reader over the string s from position i on, with no
\* hooks; open: the tokenizer's stack of open tag names; ord: the HashMap
\* iteration order
RECURSIVE ParseFrom(_, _, _, _, _, _)
RECURSIVE ParseAfter(_, _, _, _, _, _)

\* the loop goes on after a handler returned r, or the call returns r's error
ParseAfter(cfg, r, open, s, i, ord) ==
    IF r.err # "" THEN ParseFailed(r.err)
    ELSE ParseFrom(cfg, r.p, open, s, i, ord)

\* an empty-element tag, expanded: the End event follows the Start event
ParseExpanded(cfg, r, open, name, s, i, ord) ==
    IF r.err # "" THEN ParseFailed(r.err)
    ELSE ParseAfter(cfg, EndArm(cfg, r.p, name, "keep", "keep", "no"), open, s, i, ord)

\* one turn of the loop on the token t
ParseToken(cfg, p, open, s, t, ord) ==
    CASE t.kind = "eof" -> Finish(p)
      [] t.kind = "error" -> ParseFailed(ErrTokenizer)
      [] t.kind = "skip" -> ParseFrom(cfg, p, open, s, t.next, ord)
      [] t.kind = "text" -> ParseFrom(cfg, Characters(p, t.text), open, s, t.next, ord)
      [] t.kind = "start" ->
            ParseAfter(cfg, StartArm(cfg, p, t.name, t.attrs, ord, NoHooks(Len(t.attrs))),
                       Append(open, t.name), s, t.next, ord)
      [] t.kind = "empty" ->
            ParseExpanded(cfg, StartArm(cfg, p, t.name, t.attrs, ord, NoHooks(Len(t.attrs))),
                          open, t.name, s, t.next, ord)
      [] OTHER ->
            IF open = <<>> \/ Last(open) # t.name THEN ParseFailed(ErrTokenizer)
            ELSE ParseAfter(cfg, EndArm(cfg, p, t.name, "keep", "keep", "no"),
                            Front(open), s, t.next, ord)

ParseFrom(cfg, p, open, s, i, ord) == ParseToken(cfg, p, open, s, LexToken(cfg, s, i), ord)

\* parse(xml_input) for a string, no force_list and no postprocessor
ParseString(cfg, s, ord) == ParseFrom(cfg, NewParser, <<>>, s, 1, ord)

(***************************************************************************)
(* The adapters over foreign byte sources (reader/pending.rs,              *)
(* reader/file_like.rs, reader/generator.rs) and the errors they pass on   *)
(* (error.rs). A byte string is a sequence of one-character strings.       *)
(***************************************************************************)
\* a Python exception: its type, its value, and which object it is (0: one
\* the Rust code creates)
PyErr(type, value, obj) == [type |-> type, value |-> value, obj |-> obj]
TypeError(msg) == PyErr("TypeError", msg, 0)

\* expat_error: a new ExpatError with the message
ExpatError(msg) == PyErr("ExpatError", msg, 0)

\* pyerr_to_io: io::Error::other(WrappedPyErr(err.clone_ref(py)))
PyerrToIo(err) == [kind |-> "Other", wrapped |-> TRUE, inner |-> err, msg |-> err.value]

\* a pyerr_from_io that finds no wrapped error
PyerrFromIoNone(io_err) == [some |-> FALSE, err |-> NoValue]

\* pyerr_from_io: the wrapped PyErr, if the io::Error holds a WrappedPyErr
PyerrFromIo(io_err) ==
    IF io_err.wrapped THEN [some |-> TRUE, err |-> io_err.inner]
    ELSE [some |-> FALSE, err |-> NoValue]

\* quick_xml::Error::Io(io_err)
QuickXmlIo(io_err) == [variant |-> "Io", io |-> io_err, msg |-> io_err.msg]

\* map_quick_xml_error
MapQuickXmlError(err) ==
    IF err.variant = "Io"
    THEN LET original == PyerrFromIo(err.io) IN
         IF original.some THEN original.err ELSE ExpatError(err.io.msg)
    ELSE ExpatError(err.msg)

\* PendingBytes::default
EmptyPending == [buf |-> <<>>, offset |-> 0]

\* PendingBytes::remaining
PendingRemaining(pb) == IF Len(pb.buf) >= pb.offset THEN Len(pb.buf) - pb.offset ELSE 0

\* PendingBytes::is_empty
PendingIsEmpty(pb) == PendingRemaining(pb) = 0

\* PendingBytes::clear
Clear(pb) == [buf |-> <<>>, offset |-> 0]

\* a fill_from_slice that keeps the old offset
FillFromSliceKeepsOffset(pb, bytes) == [buf |-> bytes, offset |-> pb.offset]

\* PendingBytes::fill_from_slice
FillFromSlice(pb, bytes) == [buf |-> bytes, offset |-> 0]

\* a copy_into that forgets what it could not copy
CopyIntoForgets(pb, n) ==
    LET remaining == SubSeq(pb.buf, pb.offset + 1, Len(pb.buf))
        to_copy == IF Len(remaining) < n THEN Len(remaining) ELSE n
    IN [pb |-> EmptyPending, out |-> SubSeq(remaining, 1, to_copy)]

\* PendingBytes::copy_into(out) for a buffer of n bytes: [pb, out]
CopyInto(pb, n) ==
    IF pb.offset > Len(pb.buf) THEN [pb |-> EmptyPending, out |-> <<>>]
    ELSE LET remaining == SubSeq(pb.buf, pb.offset + 1, Len(pb.buf))
             to_copy == IF Len(remaining) < n THEN Len(remaining) ELSE n
             offset == pb.offset + to_copy
         IN [pb |-> IF offset >= Len(pb.buf) THEN EmptyPending
                    ELSE [buf |-> pb.buf, offset |-> offset],
             out |-> SubSeq(remaining, 1, to_copy)]

\* The adapters' state: a = [source, pending, done]. A read returns
\*   [a, k ("ok" | "err"), out (the bytes put into the buffer), err (the
\*    io::Error), asked (what the source answered to this read's calls)]
ReadOk(a, out, asked) == [a |-> a, k |-> "ok", out |-> out, err |-> NoValue, asked |-> asked]
ReadErr(a, err, asked) == [a |-> a, k |-> "err", out |-> <<>>, err |-> err, asked |-> asked]

\* the end of both read functions: bytes go to the buffer of n bytes, the
\* surplus to pending
Deliver(a, bytes, n, asked) ==
    IF Len(bytes) <= n THEN ReadOk(a, bytes, asked)
    ELSE ReadOk([a EXCEPT !.pending = FillFromSlice(a.pending, SubSeq(bytes, n + 1, Len(bytes)))],
                SubSeq(bytes, 1, n), asked)

\* file_like.read(n): the source's next answer; an exhausted file returns b""
FileAnswer(src) == IF src = <<>> THEN [k |-> "bytes", b |-> <<>>] ELSE Head(src)

\* a check that also takes text for bytes
IsBytesOrText(chunk) == chunk.k \in {"bytes", "bytearray", "str"}

\* result.downcast::<PyBytes>() or result.downcast::<PyByteArray>() succeeds
IsBytesObject(chunk) == chunk.k \in {"bytes", "bytearray"}

\* impl Read for PyFileLikeRead: read(out) with out.len() = n
FileLikeRead(a, n) ==
    IF n = 0 THEN ReadOk(a, <<>>, <<>>)
    ELSE IF ~PendingIsEmpty(a.pending)
    THEN LET c == CopyInto(a.pending, n) IN ReadOk([a EXCEPT !.pending = c.pb], c.out, <<>>)
    ELSE LET chunk == FileAnswer(a.source)
             a1 == [a EXCEPT !.source = IF a.source = <<>> THEN <<>> ELSE Tail(a.source)]
         IN CASE chunk.k = "raise" -> ReadErr(a1, PyerrToIo(chunk.e), <<chunk>>)
              [] IsBytesObject(chunk) ->
                    IF chunk.b = <<>> THEN ReadOk(a1, <<>>, <<chunk>>)
                    ELSE Deliver(a1, chunk.b, n, <<chunk>>)
              [] OTHER ->
                    ReadErr(a1, PyerrToIo(TypeError(<<"read() did not return a bytes object",
                                                     chunk.k>>)), <<chunk>>)

\* a next chunk that hands an empty chunk on instead of skipping it
NextChunkUnskipped(a, asked) ==
    IF a.done THEN [a |-> a, k |-> "none", chunk |-> NoValue, err |-> NoValue, asked |-> asked]
    ELSE IF a.source = <<>>
    THEN [a |-> [a EXCEPT !.done = TRUE], k |-> "none", chunk |-> NoValue, err |-> NoValue,
          asked |-> Append(asked, [k |-> "stop"])]
    ELSE LET chunk == Head(a.source)
             a1 == [a EXCEPT !.source = Tail(a.source)]
             asked1 == Append(asked, chunk)
             fail(e) == [a |-> a1, k |-> "err", chunk |-> NoValue, err |-> PyerrToIo(e),
                         asked |-> asked1]
         IN CASE chunk.k = "raise" -> fail(chunk.e)
              [] chunk.k = "none" ->
                    fail(TypeError(<<"a bytes-like object or str is required, not", "NoneType">>))
              [] chunk.k \in {"str", "bytes", "bytearray"} ->
                    [a |-> a1, k |-> "some", chunk |-> chunk, err |-> NoValue, asked |-> asked1]
              [] chunk.k = "memoryview" ->
                    [a |-> a1, k |-> "some", chunk |-> [k |-> "bytes", b |-> chunk.b],
                     err |-> NoValue, asked |-> asked1]
              [] OTHER -> fail(TypeError(<<"cannot extract bytes from", chunk.k>>))

\* PyGeneratorRead::next_non_empty_chunk: [a, k ("some" | "none" | "err"),
\* chunk, err, asked]; an exhausted generator raises StopIteration
RECURSIVE NextNonEmptyChunk(_, _)
NextNonEmptyChunk(a, asked) ==
    IF a.done THEN [a |-> a, k |-> "none", chunk |-> NoValue, err |-> NoValue, asked |-> asked]
    ELSE IF a.source = <<>>
    THEN [a |-> [a EXCEPT !.done = TRUE], k |-> "none", chunk |-> NoValue, err |-> NoValue,
          asked |-> Append(asked, [k |-> "stop"])]
    ELSE LET chunk == Head(a.source)
             a1 == [a EXCEPT !.source = Tail(a.source)]
             asked1 == Append(asked, chunk)
             fail(e) == [a |-> a1, k |-> "err", chunk |-> NoValue, err |-> PyerrToIo(e),
                         asked |-> asked1]
         IN CASE chunk.k = "raise" -> fail(chunk.e)
              [] chunk.k = "none" ->
                    fail(TypeError(<<"a bytes-like object or str is required, not", "NoneType">>))
              [] chunk.k \in {"str", "bytes", "bytearray"} ->
                    IF chunk.b # <<>>
                    THEN [a |-> a1, k |-> "some", chunk |-> chunk, err |-> NoValue,
                          asked |-> asked1]
                    ELSE NextNonEmptyChunk(a1, asked1)
              [] chunk.k = "memoryview" ->
                    IF chunk.b # <<>>
                    THEN [a |-> a1, k |-> "some", chunk |-> [k |-> "bytes", b |-> chunk.b],
                          err |-> NoValue, asked |-> asked1]
                    ELSE NextNonEmptyChunk(a1, asked1)
              [] OTHER -> fail(TypeError(<<"cannot extract bytes from", chunk.k>>))

\* impl Read for PyGeneratorRead: read(out) with out.len() = n
GeneratorRead(a, n) ==
    IF n = 0 THEN ReadOk(a, <<>>, <<>>)
    ELSE IF ~PendingIsEmpty(a.pending)
    THEN LET c == CopyInto(a.pending, n) IN ReadOk([a EXCEPT !.pending = c.pb], c.out, <<>>)
    ELSE IF a.done THEN ReadOk(a, <<>>, <<>>)
    ELSE LET nx == NextNonEmptyChunk(a, <<>>) IN
         CASE nx.k = "err" -> ReadErr(nx.a, nx.err, nx.asked)
           [] nx.k = "none" -> ReadOk(nx.a, <<>>, nx.asked)
           [] nx.chunk.k \in {"str", "bytes", "bytearray"} ->
                 Deliver(nx.a, nx.chunk.b, n, nx.asked)
           [] OTHER ->
                 ReadErr(nx.a, PyerrToIo(TypeError(<<"a bytes-like object or str is required, not",
                                                    nx.chunk.k>>)), nx.asked)

\* bounds of the reads: chunks the source holds, size of a read buffer,
\* number of reads
MaxChunks == 3
MaxBuf == 2
MaxReads == 6

\* the exceptions the foreign source raises
SourceErrors == {PyErr("OSError", "boom", 1), PyErr("ValueError", "bad", 2)}

\* what a foreign source may answer to a call
SourceAnswers ==
    {[k |-> "bytes", b |-> <<>>],
     [k |-> "bytes", b |-> <<"a">>],
     [k |-> "bytes", b |-> <<"b", "c", "d">>],
     [k |-> "str", b |-> <<"e", "f">>],
     [k |-> "bytearray", b |-> <<"g", "h", "i">>],
     [k |-> "memoryview", b |-> <<"j">>],
     [k |-> "none"],
     [k |-> "int"]}
    \cup {[k |-> "raise", e |-> e] : e \in SourceErrors}

\* the bytes a chunk holds (none for what is not a chunk of bytes or text)
BytesOf(chunk) == IF "b" \in DOMAIN chunk THEN chunk.b ELSE <<>>

RECURSIVE BytesOfAll(_)
BytesOfAll(chunks) ==
    IF chunks = <<>> THEN <<>> ELSE BytesOf(Head(chunks)) \o BytesOfAll(Tail(chunks))

\* the reader (BufReader over the adapter) called read with a buffer of n bytes
ReadReturned(n, r) ==
    /\ source' = r.a.source
    /\ pending' = r.a.pending
    /\ done' = r.a.done
    /\ taken' = IF r.k = "ok" THEN taken \o BytesOfAll(r.asked) ELSE taken
    /\ delivered' = delivered \o r.out
    /\ lastRead' = [size |-> n, k |-> r.k, out |-> r.out, err |-> r.err, asked |-> r.asked,
                    surplus |-> PendingRemaining(pending)]
    /\ reads' = reads + 1
    /\ UNCHANGED <<adapter, parseVars, unparseVars, escapeVars>>

Adapter == [source |-> source, pending |-> pending, done |-> done]

\* no read has failed so far
Reading == status = "running" /\ reads < MaxReads /\ (lastRead # NoValue => lastRead.k = "ok")

FileLikeReadCall ==
    /\ adapter = "file_like"
    /\ Reading
    /\ \E n \in 1..MaxBuf : \E r \in {FileLikeRead(Adapter, n)} : ReadReturned(n, r)

GeneratorReadCall ==
    /\ adapter = "generator"
    /\ Reading
    /\ \E n \in 1..MaxBuf : \E r \in {GeneratorRead(Adapter, n)} : ReadReturned(n, r)

\* a read failed: the tokenizer returns Error::Io and parse_xml_with_reader
\* returns map_quick_xml_error of it
ReadFailed ==
    /\ status = "running"
    /\ lastRead # NoValue
    /\ lastRead.k = "err"
    /\ Return("err", MapQuickXmlError(QuickXmlIo(lastRead.err)), NoValue)
    /\ UNCHANGED <<config, vocab, opened, lastMerge, rootsClosed, hookLog, nodes, event,
                   tagName, unparseVars, auxVars>>

\* PendingBytes driven on its own: the calls of its three mutators in any
\* order. taken holds the bytes of the last fill, delivered the bytes copied
\* out since, lastRead the last call with the buffer and offset it found.
MaxSlice == 3
PendingAlphabet == {"a", "b"}
PendingSlices == UNION {[1..n -> PendingAlphabet] : n \in 0..MaxSlice}

PendingCalled(call, n, out) ==
    /\ lastRead' = [call |-> call, size |-> n, out |-> out, buf |-> pending.buf,
                    offset |-> pending.offset, surplus |-> PendingRemaining(pending)]
    /\ reads' = reads + 1
    /\ UNCHANGED <<adapter, source, done, parseVars, unparseVars, escapeVars>>

FillFromSliceCall ==
    /\ adapter = "pending"
    /\ reads < MaxReads
    /\ \E bytes \in PendingSlices :
          /\ pending' = FillFromSlice(pending, bytes)
          /\ taken' = bytes
          /\ delivered' = <<>>
          /\ PendingCalled("fill_from_slice", Len(bytes), <<>>)

CopyIntoCall ==
    /\ adapter = "pending"
    /\ reads < MaxReads
    /\ \E n \in 0..MaxBuf : \E c \in {CopyInto(pending, n)} :
          /\ pending' = c.pb
          /\ taken' = taken
          /\ delivered' = delivered \o c.out
          /\ PendingCalled("copy_into", n, c.out)

ClearCall ==
    /\ adapter = "pending"
    /\ reads < MaxReads
    /\ pending' = Clear(pending)
    /\ taken' = <<>>
    /\ delivered' = <<>>
    /\ PendingCalled("clear", 0, <<>>)

(***************************************************************************)
(* Configurations and input vocabularies                                   *)
(***************************************************************************)
Over(base, upd) == [f \in DOMAIN base |-> IF f \in DOMAIN upd THEN upd[f] ELSE base[f]]

NoNamespaces == [some |-> FALSE, map |-> EmptyNs]
NoForceList == [shape |-> "none", val |-> FALSE, keys |-> {}]

\* the defaults of parse()
DefaultConfig ==
    [xml_attribs |-> TRUE,
     attr_prefix |-> <<"@">>,
     cdata_key |-> <<"#", "t", "e", "x", "t">>,
     force_cdata |-> FALSE,
     cdata_separator |-> <<>>,
     strip_whitespace |-> TRUE,
     namespace_separator |-> <<":">>,
     process_namespaces |-> FALSE,
     process_comments |-> FALSE,
     comment_key |-> <<"#", "c", "o", "m", "m", "e", "n", "t">>,
     namespaces |-> NoNamespaces,
     force_list |-> NoForceList,
     postprocessor |-> {}]

\* the defaults of unparse()
DefaultUnparseConfig ==
    [encoding |-> <<"u", "t", "f", "-", "8">>,
     full_document |-> TRUE,
     short_empty_elements |-> FALSE,
     attr_prefix |-> <<"@">>,
     cdata_key |-> <<"#", "t", "e", "x", "t">>,
     pretty |-> FALSE,
     newl |-> <<"\n">>,
     indent |-> <<"\t">>]

NoPreprocessor == [on |-> FALSE, drop |-> {}, raise |-> {}]

NameA == <<"a">>
NameB == <<"b">>
NameNB == <<"n", ":", "b">>
AttrId == [key |-> <<"i", "d">>, value |-> <<"5">>]
AttrK == [key |-> <<"k">>, value |-> <<"v">>]
AttrNK == [key |-> <<"n", ":", "k">>, value |-> <<"v">>]
UriU == <<"u">>
UriW == <<"w">>
DeclN == [key |-> XMLNS \o <<":", "n">>, value |-> UriU]
DeclDefault == [key |-> XMLNS, value |-> UriU]
DeclNW == [key |-> XMLNS \o <<":", "n">>, value |-> UriW]

Tag(name, attrs) == [name |-> name, attrs |-> attrs]

\* documents of plain elements a and b with text
MergeVocab ==
    [tags |-> {Tag(NameA, <<>>), Tag(NameB, <<>>)},
     texts |-> {<<"1">>},
     cdatas |-> {},
     comments |-> {},
     prefixes |-> {}]

\* documents of one element name with attributes, text, CDATA and comments
AttrVocab ==
    [tags |-> {Tag(NameA, <<>>), Tag(NameA, <<AttrId, AttrK>>)},
     texts |-> {<<"1">>},
     cdatas |-> {<<" ">>},
     comments |-> {<<" ", "c">>},
     prefixes |-> {}]

\* documents with a declared prefix n, prefixed names and a default declaration
NsVocab ==
    [tags |-> {Tag(NameA, <<DeclN>>), Tag(NameNB, <<AttrNK, AttrId>>),
               Tag(NameB, <<DeclDefault>>)},
     texts |-> {<<"1">>},
     cdatas |-> {},
     comments |-> {},
     prefixes |-> {<<>>, <<"n">>}]

NsSmallVocab ==
    [tags |-> {Tag(NameA, <<DeclN>>), Tag(NameNB, <<AttrId>>)},
     texts |-> {<<"1">>},
     cdatas |-> {<<"2">>},
     comments |-> {<<"c">>},
     prefixes |-> {<<"n">>}]

\* documents for the hooks: one element name, with and without an attribute
HookVocab ==
    [tags |-> {Tag(NameA, <<>>), Tag(NameA, <<AttrId>>)},
     texts |-> {<<"1">>},
     cdatas |-> {<<"2">>},
     comments |-> {<<"c">>},
     prefixes |-> {}]

HookSmallVocab ==
    [tags |-> {Tag(NameA, <<>>), Tag(NameB, <<AttrId>>)},
     texts |-> {<<"1">>},
     cdatas |-> {},
     comments |-> {},
     prefixes |-> {}]

HookOneVocab ==
    [tags |-> {Tag(NameA, <<AttrId>>)},
     texts |-> {<<"1">>},
     cdatas |-> {},
     comments |-> {},
     prefixes |-> {}]

\* documents whose trees are serialized and parsed again
RoundTripNsVocab ==
    [tags |-> {Tag(NameA, <<DeclN, AttrNK>>), Tag(NameNB, <<>>)},
     texts |-> {<<"1">>},
     cdatas |-> {},
     comments |-> {},
     prefixes |-> {<<"n">>}]

RoundTripVocab ==
    [tags |-> {Tag(NameA, <<>>), Tag(NameB, <<AttrId>>)},
     texts |-> {<<"1">>},
     cdatas |-> {<<"2">>},
     comments |-> {<<"c">>},
     prefixes |-> {}]

ForceBool(b) == [shape |-> "bool", val |-> b, keys |-> {}]
ForceSet(keys) == [shape |-> "set", val |-> FALSE, keys |-> keys]
ForcePred == [shape |-> "pred", val |-> FALSE, keys |-> {}]

Aliases(m) == [some |-> TRUE, map |-> m]
AliasP == Aliases([q \in {UriU} |-> <<"p">>])
AliasEmpty == Aliases([q \in {UriU} |-> <<>>])
AliasOther == Aliases([q \in {UriW} |-> <<"q">>])

Scenario(cfg, voc) == [cfg |-> cfg, vocab |-> voc]

PlainScenarios ==
    {Scenario(DefaultConfig, MergeVocab),
     Scenario(Over(DefaultConfig, [force_list |-> ForceBool(TRUE)]), MergeVocab),
     Scenario(Over(DefaultConfig, [force_list |-> ForceSet({NameB})]), MergeVocab),
     Scenario(Over(DefaultConfig, [force_list |-> ForcePred]), MergeVocab),
     Scenario(Over(DefaultConfig, [process_comments |-> TRUE]), AttrVocab),
     Scenario(Over(DefaultConfig, [force_cdata |-> TRUE, strip_whitespace |-> FALSE,
                                   process_comments |-> TRUE]), AttrVocab)}

NsConfig == Over(DefaultConfig, [process_namespaces |-> TRUE])

NsScenarios ==
    {Scenario(NsConfig, NsVocab),
     Scenario(Over(NsConfig, [namespaces |-> AliasP]), NsVocab),
     Scenario(Over(NsConfig, [namespaces |-> AliasEmpty]), NsVocab),
     Scenario(Over(NsConfig, [namespaces |-> AliasOther]), NsVocab),
     Scenario(Over(NsConfig, [process_comments |-> TRUE]), NsSmallVocab),
     Scenario(DefaultConfig, NsSmallVocab)}

\* elements that use a prefix, or the default namespace, declared on their own
\* start tag
NsOwnVocab ==
    [tags |-> {Tag(NameNB, <<DeclN, AttrNK>>), Tag(NameB, <<DeclDefault>>)},
     texts |-> {<<"1">>},
     cdatas |-> {<<"2">>},
     comments |-> {<<"c">>},
     prefixes |-> {<<>>, <<"n">>}]

\* process_namespaces with xml_attribs on and off
NsOwnScenarios ==
    {Scenario(NsConfig, NsOwnVocab),
     Scenario(Over(NsConfig, [xml_attribs |-> FALSE]), NsOwnVocab)}

\* a prefix declared on a, used by n:b and declared again by another n:b
NsScopeVocab ==
    [tags |-> {Tag(NameA, <<DeclN>>), Tag(NameNB, <<>>), Tag(NameNB, <<DeclNW>>)},
     texts |-> {<<"1">>},
     cdatas |-> {<<"2">>},
     comments |-> {<<"c">>},
     prefixes |-> {<<"n">>}]

NsScopeScenarios ==
    {Scenario(NsConfig, NsScopeVocab),
     Scenario(Over(NsConfig, [namespaces |-> AliasP]), NsScopeVocab)}

\* hooks that are called for attributes, text entries and elements, with
\* resolved and with plain names
PathScenarios ==
    {Scenario(Over(NsConfig, [postprocessor |-> {"keep"}, force_list |-> ForcePred]),
              NsSmallVocab),
     Scenario(Over(DefaultConfig, [postprocessor |-> {"rekey"}, force_list |-> ForcePred,
                                   process_comments |-> TRUE]), HookVocab)}

\* documents with tags whose name is empty or holds a raw '<'
NameVocab ==
    [tags |-> {Tag(NameA, <<AttrId>>), Tag(<<>>, <<AttrId>>), Tag(<<"a", "<">>, <<AttrId>>)},
     texts |-> {<<"1">>},
     cdatas |-> {<<"2">>},
     comments |-> {<<"c">>},
     prefixes |-> {}]

\* without hooks, and with a postprocessor and a force_list predicate
NameScenarios ==
    {Scenario(DefaultConfig, NameVocab),
     Scenario(Over(DefaultConfig, [postprocessor |-> {"keep"}, force_list |-> ForcePred,
                                   process_comments |-> TRUE]), NameVocab)}

\* a prefix declared again by a nested element, without hooks and with a
\* postprocessor that keeps or drops what it is given
SameNameScenarios ==
    {Scenario(NsConfig, NsScopeVocab),
     Scenario(Over(NsConfig, [postprocessor |-> {"keep", "drop"}]), NsScopeVocab)}

HookScenarios ==
    {Scenario(Over(DefaultConfig, [postprocessor |-> {"keep", "drop"},
                                   process_comments |-> TRUE]), HookVocab),
     Scenario(Over(DefaultConfig, [postprocessor |-> {"keep", "raise"}]), HookSmallVocab),
     Scenario(Over(DefaultConfig, [postprocessor |-> {"rekey", "reval"}]), HookOneVocab)}

\* hooks that raise: a postprocessor that always raises, one that may, and a
\* force_list predicate that may raise after the postprocessor returned
AbortScenarios ==
    {Scenario(Over(DefaultConfig, [postprocessor |-> {"raise"}, process_comments |-> TRUE]),
              HookVocab),
     Scenario(Over(DefaultConfig, [postprocessor |-> {"keep", "raise"}]), HookSmallVocab),
     Scenario(Over(DefaultConfig, [postprocessor |-> {"keep"}, force_list |-> ForcePred]),
              MergeVocab)}

\* documents of one element name, nested and repeated
MergeOneVocab ==
    [tags |-> {Tag(NameA, <<>>)},
     texts |-> {<<"1">>},
     cdatas |-> {},
     comments |-> {},
     prefixes |-> {}]

\* documents of one element with texts, whitespace CDATA and comments
TextVocab ==
    [tags |-> {Tag(NameA, <<>>)},
     texts |-> {<<"1">>, <<" ", "2">>},
     cdatas |-> {<<" ">>},
     comments |-> {<<"c">>},
     prefixes |-> {}]

\* a visible separator between the fragments, with and without strip_whitespace
TextScenarios ==
    {Scenario(Over(DefaultConfig, [cdata_separator |-> <<"-">>]), TextVocab),
     Scenario(Over(DefaultConfig, [cdata_separator |-> <<"-">>, strip_whitespace |-> FALSE]),
              TextVocab)}

\* documents of one element with text, CDATA and comments
CommentVocab ==
    [tags |-> {Tag(NameA, <<>>)},
     texts |-> {<<"1">>},
     cdatas |-> {<<"2">>},
     comments |-> {<<" ", "c">>},
     prefixes |-> {}]

\* comments handled and skipped, trimmed and raw, under the force-list policies
CommentScenarios ==
    {Scenario(Over(DefaultConfig, [process_comments |-> TRUE]), CommentVocab),
     Scenario(Over(DefaultConfig, [process_comments |-> TRUE, strip_whitespace |-> FALSE,
                                   force_list |-> ForceBool(TRUE)]), CommentVocab),
     Scenario(Over(DefaultConfig, [process_comments |-> TRUE,
                                   force_list |-> ForceSet({DefaultConfig.comment_key})]),
              CommentVocab),
     Scenario(DefaultConfig, CommentVocab)}

\* a force_list predicate together with a postprocessor that changes or drops
\* the value, one that may change the key, one that changes every key and one
\* that changes nothing, the last two over attributes and text entries, and
\* one that changes every value, over CDATA and comments
MergeScenarios ==
    {Scenario(Over(DefaultConfig, [postprocessor |-> {"reval", "drop"},
                                   force_list |-> ForcePred]), MergeOneVocab),
     Scenario(Over(DefaultConfig, [postprocessor |-> {"keep", "rekey"},
                                   force_list |-> ForcePred]), MergeOneVocab),
     Scenario(Over(DefaultConfig, [postprocessor |-> {"rekey"},
                                   force_list |-> ForcePred]), HookOneVocab),
     Scenario(Over(DefaultConfig, [postprocessor |-> {"keep"},
                                   force_list |-> ForcePred]), HookOneVocab),
     Scenario(Over(DefaultConfig, [postprocessor |-> {"reval"},
                                   force_list |-> ForcePred,
                                   process_comments |-> TRUE]), CommentVocab)}

\* no document at all
EmptyVocab == [tags |-> {}, texts |-> {}, cdatas |-> {}, comments |-> {}, prefixes |-> {}]

RoundTripScenarios ==
    {Scenario(NsConfig, RoundTripNsVocab),
     Scenario(Over(DefaultConfig, [process_comments |-> TRUE]), RoundTripVocab),
     Scenario(Over(DefaultConfig, [force_cdata |-> TRUE, strip_whitespace |-> FALSE]),
              RoundTripVocab)}

\* the top-level mappings, configurations and preprocessors given to unparse
UnparseDicts ==
    {<<>>,
     <<[key |-> NameA, val |-> Null]>>,
     <<[key |-> NameA, val |-> Txt(<<"1">>)], [key |-> NameB, val |-> Txt(<<"2">>)]>>,
     <<[key |-> NameA, val |-> Map(<<[key |-> <<"@", "i", "d">>, val |-> Txt(<<"5">>)],
                                     [key |-> NameB, val |-> Null]>>)]>>,
     <<[key |-> NameA, val |-> Lst(<<Txt(<<"1">>), Bool(TRUE)>>)]>>,
     <<[key |-> NameA, val |-> Map(<<[key |-> <<"@", "i", "d">>, val |-> Txt(<<"5">>)],
                                     [key |-> <<"@", "k">>, val |-> Txt(<<"\"", "<">>)]>>)]>>,
     <<[key |-> NameB, val |-> Map(<<[key |-> <<"@", "k">>, val |-> Bool(FALSE)],
                                     [key |-> NameA, val |-> Null]>>)]>>}

\* mappings with two attribute entries, a text entry and two child entries,
\* some or all of them, in every order
PartitionEntries ==
    {[key |-> <<"@", "i", "d">>, val |-> Txt(<<"5">>)],
     [key |-> <<"@", "k">>, val |-> Bool(TRUE)],
     [key |-> <<"#", "t", "e", "x", "t">>, val |-> Txt(<<"1">>)],
     [key |-> NameB, val |-> Null],
     [key |-> NameA, val |-> Txt(<<"2">>)]}

Arrangements(S) == UNION {Orders(T) : T \in SUBSET S \ {{}}}

PartitionDicts == {<<[key |-> NameA, val |-> Map(m)]>> : m \in Arrangements(PartitionEntries)}

\* the default attr_prefix, and one that the default cdata_key starts with
PartitionConfigs ==
    {Over(DefaultUnparseConfig, [full_document |-> FALSE, pretty |-> pr,
                                 short_empty_elements |-> se, attr_prefix |-> ap]) :
        pr \in BOOLEAN, se \in BOOLEAN, ap \in {<<"@">>, <<"#">>}}

\* strings with and without the characters the escaping functions replace,
\* and the two booleans
ScalarTexts ==
    {<<>>, <<"a">>, <<"&">>, <<"<">>, <<">">>, <<"\"">>, <<"&", "a", ";">>, <<"<", "&">>,
     <<"\"", ">">>}

ScalarValues == {Bool(TRUE), Bool(FALSE)} \cup {Txt(t) : t \in ScalarTexts}

AttrKeyK == <<"@", "k">>
TextKey == <<"#", "t", "e", "x", "t">>

\* a scalar as bare value, as item of a list, as attribute value and as text entry
ScalarDicts ==
    {<<[key |-> NameA, val |-> v]>> : v \in ScalarValues}
    \cup {<<[key |-> NameA, val |-> Lst(<<v, w>>)]>> : v \in ScalarValues, w \in ScalarValues}
    \cup {<<[key |-> NameA, val |-> Map(<<[key |-> AttrKeyK, val |-> v]>>)]>> :
              v \in ScalarValues}
    \cup {<<[key |-> NameA, val |-> Map(<<[key |-> TextKey, val |-> v]>>)]>> :
              v \in ScalarValues}
    \cup {<<[key |-> NameA, val |-> Map(<<[key |-> AttrKeyK, val |-> v],
                                            [key |-> TextKey, val |-> w]>>)]>> :
              v \in ScalarValues, w \in ScalarValues}

ScalarConfigs ==
    {Over(DefaultUnparseConfig, [full_document |-> FALSE, pretty |-> pr,
                                 short_empty_elements |-> se]) :
        pr \in BOOLEAN, se \in BOOLEAN}

\* values nested up to two levels: scalars, lists of two, mappings with one
\* or two child entries
PrettyLeaves == {Null, Txt(<<"1">>)}
PrettyValues ==
    PrettyLeaves
    \cup {Lst(<<x, y>>) : x \in PrettyLeaves, y \in PrettyLeaves}
    \cup {Map(<<[key |-> NameB, val |-> x]>>) : x \in PrettyLeaves}
PrettyNested ==
    {Map(<<[key |-> NameB, val |-> v]>>) : v \in PrettyValues}
    \cup {Map(<<[key |-> NameB, val |-> v], [key |-> NameA, val |-> x]>>) :
              v \in PrettyValues, x \in PrettyLeaves}
    \cup {Map(<<[key |-> TextKey, val |-> Txt(<<"2">>)], [key |-> NameB, val |-> v]>>) :
              v \in PrettyValues}

\* one top-level entry, or two
PrettyDicts ==
    {<<[key |-> NameA, val |-> v]>> : v \in PrettyValues \cup PrettyNested}
    \cup {<<[key |-> NameA, val |-> v], [key |-> NameB, val |-> w]>> :
              v \in PrettyValues, w \in PrettyValues}

\* values the preprocessor suppresses (under the key b; the key c stands
\* inside them only) and values it keeps (under the keys a and d)
KeyC == <<"c">>
KeyD == <<"d">>
SuppressedValues ==
    {Null, Txt(<<"1">>), Map(<<[key |-> KeyC, val |-> Txt(<<"2">>)]>>),
     Lst(<<Txt(<<"1">>), Map(<<[key |-> KeyC, val |-> Null]>>)>>)}
KeptValues == {Null, Txt(<<"1">>), Map(<<[key |-> KeyD, val |-> Null]>>)}

\* the suppressed entry after, between and before its siblings, at the top
\* level and among the child entries of an element
SuppressEntries ==
    {<<[key |-> NameA, val |-> s], [key |-> NameB, val |-> x]>> :
        s \in KeptValues, x \in SuppressedValues}
    \cup {<<[key |-> NameB, val |-> x], [key |-> NameA, val |-> s]>> :
              s \in KeptValues, x \in SuppressedValues}
    \cup {<<[key |-> NameA, val |-> s], [key |-> NameB, val |-> x], [key |-> KeyD, val |-> t]>> :
              s \in KeptValues, x \in SuppressedValues, t \in KeptValues}
SuppressDicts ==
    SuppressEntries \cup {<<[key |-> NameA, val |-> Map(m)]>> : m \in SuppressEntries}
SuppressingPreprocessor == [on |-> TRUE, drop |-> {NameB}, raise |-> {}]

\* top-level mappings with no, one, two and three entries
HeaderValues == {Null, Txt(<<"1">>), Map(<<[key |-> NameB, val |-> Null]>>)}
HeaderDicts ==
    {<<>>}
    \cup {<<[key |-> NameA, val |-> v]>> : v \in HeaderValues}
    \cup {<<[key |-> NameA, val |-> v], [key |-> NameB, val |-> w]>> :
              v \in HeaderValues, w \in HeaderValues}
    \cup {<<[key |-> NameB, val |-> v], [key |-> NameA, val |-> w], [key |-> KeyD, val |-> x]>> :
              v \in HeaderValues, w \in HeaderValues, x \in HeaderValues}

\* with and without the declaration, two encoding labels, two newlines
HeaderConfigs ==
    {Over(DefaultUnparseConfig, [full_document |-> fd, pretty |-> pr, encoding |-> en,
                                 newl |-> nl]) :
        fd \in BOOLEAN, pr \in BOOLEAN,
        en \in {DefaultUnparseConfig.encoding, <<"l", "1">>},
        nl \in {DefaultUnparseConfig.newl, <<"\r", "\n">>}}

UnparseConfigs ==
    {Over(DefaultUnparseConfig, [full_document |-> fd, pretty |-> pr,
                                 short_empty_elements |-> se]) :
        fd \in BOOLEAN, pr \in BOOLEAN, se \in BOOLEAN}

Preprocessors ==
    {NoPreprocessor,
     [on |-> TRUE, drop |-> {}, raise |-> {}],
     [on |-> TRUE, drop |-> {NameA}, raise |-> {}],
     [on |-> TRUE, drop |-> {}, raise |-> {NameA, NameB}],
     [on |-> TRUE, drop |-> {}, raise |-> {NameB}]}

(***************************************************************************)
(* unparse, and the round trip                                             *)
(***************************************************************************)
\* the call unparse(input_dict, ...) returns u
Returned(input, u) ==
    /\ uInput' = input
    /\ uStatus' = u.status
    /\ uError' = u.error
    /\ uOutput' = u.output
    /\ uWritten' = u.written
    /\ uPreLog' = u.log

\* unparse() on the given input
Unparse ==
    /\ uStatus = "idle"
    /\ uInput # NoValue
    /\ \E u \in {UnparseCall(uInput.uc, uInput.pre, uInput.dict)} : Returned(uInput, u)
    /\ UNCHANGED <<parseVars, reparsed, auxVars>>

\* the attr_prefix and cdata_key of the parse configuration, unparse()'s
\* defaults otherwise
MatchingUnparseConfig(cfg) ==
    Over(DefaultUnparseConfig, [attr_prefix |-> cfg.attr_prefix, cdata_key |-> cfg.cdata_key])

\* unparse() on the tree a parse returned
Serialize ==
    /\ status = "ok"
    /\ uStatus = "idle"
    /\ \E uc \in {MatchingUnparseConfig(config)} :
       \E u \in {UnparseCall(uc, NoPreprocessor, result.e)} :
          Returned([dict |-> result.e, uc |-> uc, pre |-> NoPreprocessor], u)
    /\ UNCHANGED <<parseVars, reparsed, auxVars>>

\* parse() on the string unparse returned, under the same configuration
Reparse ==
    /\ uStatus = "ok"
    /\ reparsed = NoValue
    /\ \E ord \in Orders(vocab.prefixes) : reparsed' = ParseString(config, uOutput, ord)
    /\ UNCHANGED <<parseVars, uInput, uStatus, uError, uOutput, uWritten, uPreLog, auxVars>>

(***************************************************************************)
(* Specifications                                                          *)
(***************************************************************************)
InitParser ==
    /\ stack = <<>>
    /\ path = <<>>
    /\ text_stack = <<>>
    /\ namespace_stack = <<>>
    /\ status = "running"
    /\ error = ""
    /\ result = NoValue
    /\ opened = <<>>
    /\ kids = <<>>
    /\ lastMerge = NoValue
    /\ rootsClosed = 0
    /\ hookLog = <<>>
    /\ nodes = 0
    /\ event = "none"
    /\ tagName = NoValue

InitUnparseIdle ==
    /\ uInput = NoValue
    /\ uStatus = "idle"
    /\ uError = ""
    /\ uOutput = <<>>
    /\ uWritten = <<>>
    /\ uPreLog = <<>>
    /\ reparsed = NoValue

\* no call of the escaping functions is under way
InitEscapeIdle ==
    /\ eInput = <<>>
    /\ eOutput = NoValue

\* the input is not read through an adapter
InitReaderIdle ==
    /\ adapter = "none"
    /\ source = <<>>
    /\ pending = EmptyPending
    /\ done = FALSE
    /\ taken = <<>>
    /\ delivered = <<>>
    /\ lastRead = NoValue
    /\ reads = 0

InitAuxIdle ==
    /\ InitEscapeIdle
    /\ InitReaderIdle

InitScenario(scenarios) ==
    /\ \E sc \in scenarios : config = sc.cfg /\ vocab = sc.vocab
    /\ InitParser
    /\ InitUnparseIdle
    /\ InitAuxIdle

NextParse ==
    \/ EvStart
    \/ EvEnd
    \/ EvText
    \/ EvCData
    \/ EvComment
    \/ EvEndMismatch
    \/ EvTokenizerError
    \/ EvEof

\* parse() on documents of plain elements, under the force-list policies
Init == InitScenario(PlainScenarios)
Next == NextParse
Spec == Init /\ [][Next]_vars

\* parse() with process_namespaces, under the alias tables
InitNs == InitScenario(NsScenarios)
SpecNs == InitNs /\ [][NextParse]_vars

\* parse() with a postprocessor
InitHook == InitScenario(HookScenarios)
SpecHook == InitHook /\ [][NextParse]_vars

\* parse(), then unparse() of the tree, then parse() of the output
InitRoundTrip == InitScenario(RoundTripScenarios)
NextRoundTrip ==
    \/ NextParse
    \/ Serialize
    \/ Reparse
SpecRoundTrip == InitRoundTrip /\ [][NextRoundTrip]_vars

\* unparse() alone
InitUnparse ==
    /\ config = DefaultConfig
    /\ vocab = MergeVocab
    /\ InitParser
    /\ \E d \in UnparseDicts, uc \in UnparseConfigs, pre \in Preprocessors :
          uInput = [dict |-> d, uc |-> uc, pre |-> pre]
    /\ uStatus = "idle"
    /\ uError = ""
    /\ uOutput = <<>>
    /\ uWritten = <<>>
    /\ uPreLog = <<>>
    /\ reparsed = NoValue
    /\ InitAuxIdle
NextUnparse == Unparse
SpecUnparse == InitUnparse /\ [][NextUnparse]_vars

\* parse with hooks that raise, or unparse with a preprocessor that may
InitAbort ==
    \/ InitScenario(AbortScenarios)
    \/ /\ config = DefaultConfig
       /\ vocab = EmptyVocab
       /\ InitParser
       /\ \E d \in UnparseDicts, uc \in UnparseConfigs, pre \in Preprocessors :
             uInput = [dict |-> d, uc |-> uc, pre |-> pre]
       /\ uStatus = "idle"
       /\ uError = ""
       /\ uOutput = <<>>
       /\ uWritten = <<>>
       /\ uPreLog = <<>>
       /\ reparsed = NoValue
       /\ InitAuxIdle
NextAbort ==
    \/ NextParse
    \/ Unparse
SpecAbort == InitAbort /\ [][NextAbort]_vars

\* documents whose elements declare the namespaces they use
InitNsOwn == InitScenario(NsOwnScenarios)
SpecNsOwn == InitNsOwn /\ [][NextParse]_vars

\* documents whose elements declare a prefix again
InitNsScope == InitScenario(NsScopeScenarios)
SpecNsScope == InitNsScope /\ [][NextParse]_vars

\* documents parsed with hooks that are given the path
InitPath == InitScenario(PathScenarios)
SpecPath == InitPath /\ [][NextParse]_vars

\* unparse() of one element whose value is a mapping
InitPartition ==
    /\ config = DefaultConfig
    /\ vocab = EmptyVocab
    /\ InitParser
    /\ \E d \in PartitionDicts, uc \in PartitionConfigs :
          uInput = [dict |-> d, uc |-> uc, pre |-> NoPreprocessor]
    /\ uStatus = "idle"
    /\ uError = ""
    /\ uOutput = <<>>
    /\ uWritten = <<>>
    /\ uPreLog = <<>>
    /\ reparsed = NoValue
    /\ InitAuxIdle
SpecPartition == InitPartition /\ [][Unparse]_vars

\* unparse() on the input [dict, uc, pre] drawn from inputs
InitUnparseOf(inputs) ==
    /\ config = DefaultConfig
    /\ vocab = EmptyVocab
    /\ InitParser
    /\ uInput \in inputs
    /\ uStatus = "idle"
    /\ uError = ""
    /\ uOutput = <<>>
    /\ uWritten = <<>>
    /\ uPreLog = <<>>
    /\ reparsed = NoValue
    /\ InitAuxIdle

\* unparse() of one element holding scalars
InitScalar ==
    InitUnparseOf({[dict |-> d, uc |-> uc, pre |-> NoPreprocessor] :
                      d \in ScalarDicts, uc \in ScalarConfigs})
SpecScalar == InitScalar /\ [][Unparse]_vars

\* unparse() of nested elements, pretty-printed or not
InitPretty ==
    InitUnparseOf({[dict |-> d, uc |-> uc, pre |-> NoPreprocessor] :
                      d \in PrettyDicts, uc \in ScalarConfigs})
SpecPretty == InitPretty /\ [][Unparse]_vars

\* unparse() with a preprocessor that returns None for the key b
InitSuppress ==
    InitUnparseOf({[dict |-> d, uc |-> uc, pre |-> SuppressingPreprocessor] :
                      d \in SuppressDicts, uc \in ScalarConfigs})
SpecSuppress == InitSuppress /\ [][Unparse]_vars

\* unparse() with and without full_document
InitHeader ==
    InitUnparseOf({[dict |-> d, uc |-> uc, pre |-> NoPreprocessor] :
                      d \in HeaderDicts, uc \in HeaderConfigs})
SpecHeader == InitHeader /\ [][Unparse]_vars

\* documents whose names resolve differently in nested scopes
InitSameName == InitScenario(SameNameScenarios)
SpecSameName == InitSameName /\ [][NextParse]_vars

\* documents with malformed tag names
InitName == InitScenario(NameScenarios)
SpecName == InitName /\ [][NextParse]_vars

\* documents with comments
InitComment == InitScenario(CommentScenarios)
SpecComment == InitComment /\ [][NextParse]_vars

\* documents with several text fragments per element
InitText == InitScenario(TextScenarios)
SpecText == InitText /\ [][NextParse]_vars

\* documents parsed with a postprocessor and a force_list predicate
InitMerge == InitScenario(MergeScenarios)
SpecMerge == InitMerge /\ [][NextParse]_vars

\* reads through either adapter from every source of up to MaxChunks answers
InitReader ==
    /\ config = DefaultConfig
    /\ vocab = EmptyVocab
    /\ InitParser
    /\ InitUnparseIdle
    /\ InitEscapeIdle
    /\ adapter \in {"file_like", "generator"}
    /\ source \in UNION {[1..n -> SourceAnswers] : n \in 0..MaxChunks}
    /\ pending = EmptyPending
    /\ done = FALSE
    /\ taken = <<>>
    /\ delivered = <<>>
    /\ lastRead = NoValue
    /\ reads = 0
NextReader ==
    \/ FileLikeReadCall
    \/ GeneratorReadCall
    \/ ReadFailed
SpecReader == InitReader /\ [][NextReader]_vars

\* the escaping functions on every string of EscapeInputs
InitEscape ==
    /\ config = DefaultConfig
    /\ vocab = MergeVocab
    /\ InitParser
    /\ InitUnparseIdle
    /\ eInput \in EscapeInputs
    /\ eOutput = NoValue
    /\ InitReaderIdle
NextEscape == Escape
SpecEscape == InitEscape /\ [][NextEscape]_vars

\* every sequence of up to MaxReads calls on a PendingBytes
InitPending ==
    /\ config = DefaultConfig
    /\ vocab = EmptyVocab
    /\ InitParser
    /\ InitUnparseIdle
    /\ InitEscapeIdle
    /\ adapter = "pending"
    /\ source = <<>>
    /\ pending = EmptyPending
    /\ done = FALSE
    /\ taken = <<>>
    /\ delivered = <<>>
    /\ lastRead = NoValue
    /\ reads = 0
NextPending ==
    \/ FillFromSliceCall
    \/ CopyIntoCall
    \/ ClearCall
SpecPending == InitPending /\ [][NextPending]_vars

(***************************************************************************)
(* Properties                                                              *)
(***************************************************************************)
\* the index in the stack of the dict of the i-th open element (a result
\* dict, if there is one, lies below the dicts of the open elements)
ElemIndex(i) == Len(stack) - Len(opened) + i

\* the entries merged so far into the dict at stack index d under key
Siblings(d, key) == LET Same(e) == e.key = key IN SelectSeq(kids[d], Same)

ValuesOf(entries) == [j \in 1..Len(entries) |-> entries[j].val]

NoHook == config.postprocessor = {}

\* the value given to the element that just closed: the root entry, or the
\* value last merged into the innermost dict
Newest ==
    IF opened = <<>> /\ rootsClosed = 1 THEN stack[1][1].val
    ELSE Last(Last(kids)).raw

\* C2 Sibling merge: with no hook and no force-list, in every open element the
\* entry under a name is the bare value when one child of that name has closed
\* inside it, and the List of all n values in closing order when n >= 2 have,
\* whatever other children closed in between.
C2_SiblingMerge ==
    (status = "running" /\ NoHook /\ config.force_list.shape = "none") =>
        \A i \in 1..Len(opened) :
            \A j \in 1..Len(kids[ElemIndex(i)]) :
                LET d == ElemIndex(i)
                    key == kids[d][j].key
                    values == ValuesOf(Siblings(d, key))
                IN /\ DictHas(stack[d], key)
                   /\ DictGet(stack[d], key) =
                          IF Len(values) = 1 THEN values[1] ELSE Lst(values)

\* <a><b/><a/><b/> with no force-list: b holds the list of both values
C2_Witness ==
    /\ status = "running"
    /\ config.force_list.shape = "none"
    /\ Len(opened) = 1
    /\ [j \in 1..Len(kids[1]) |-> kids[1][j].key] = <<NameB, NameA, NameB>>
    /\ DictGet(stack[1], NameB) = Lst(<<Null, Null>>)
    /\ DictGet(stack[1], NameA) = Null

\* what the force-list policy says for a merged entry
PolicySays(cfg, kid) ==
    CASE cfg.force_list.shape = "bool" -> cfg.force_list.val
      [] cfg.force_list.shape = "set" -> kid.key \in cfg.force_list.keys
      [] cfg.force_list.shape = "pred" -> kid.ans = "yes"
      [] OTHER -> FALSE

\* C3 Force-list policy: an entry whose key occurs once in its parent is stored
\* as the one-element list [value] exactly when the policy says so (a boolean
\* for every key, a set for its members, the predicate's answer, never when
\* absent), and the predicate is called with (path, key, value) of that entry.
C3_ForceListPolicy ==
    (status = "running" /\ NoHook) =>
        /\ \A i \in 1..Len(opened) :
              \A j \in 1..Len(kids[ElemIndex(i)]) :
                  LET d == ElemIndex(i)
                      kid == kids[d][j]
                  IN Len(Siblings(d, kid.key)) = 1 =>
                        DictGet(stack[d], kid.key) =
                            IF PolicySays(config, kid) THEN Lst(<<kid.val>>) ELSE kid.val
        /\ \A c \in 1..Len(hookLog) :
              /\ config.force_list.shape = "pred"
              /\ kids # <<>> /\ Last(kids) # <<>>
              /\ hookLog[c] = [fn |-> "force", path |-> path, key |-> Last(Last(kids)).key,
                               val |-> Last(Last(kids)).val]
        /\ (config.force_list.shape = "pred" /\ event = "end" /\ opened # <<>>
              /\ Len(Siblings(Len(kids), Last(Last(kids)).key)) = 1) => Len(hookLog) = 1

\* <a><b/><a/> with force-list = {b}: b is stored as [None], a as None
C3_Witness ==
    /\ status = "running"
    /\ config.force_list.shape = "set"
    /\ Len(opened) = 1
    /\ [j \in 1..Len(kids[1]) |-> kids[1][j].key] = <<NameB, NameA>>
    /\ DictGet(stack[1], NameB) = Lst(<<Null>>)
    /\ DictGet(stack[1], NameA) = Null

IsDeclaration(key) == key = XMLNS \/ StartsWith(key, XMLNS \o <<COLON>>)

\* the attributes of a start tag that are not namespace declarations
OrdinaryAttrs(cfg, attrs) ==
    LET Ordinary(a) == ~(cfg.process_namespaces /\ IsDeclaration(a.key)) IN
    SelectSeq(attrs, Ordinary)

\* resolve(name) against the namespace mapping ns of the current element
Resolve(cfg, ns, name) ==
    LET colon == IndexFrom(name, COLON, 1)
        prefix == IF colon = 0 THEN <<>> ELSE SubSeq(name, 1, colon - 1)
        local == IF colon = 0 THEN name ELSE SubSeq(name, colon + 1, Len(name))
        alias == IF cfg.namespaces.some /\ ns[prefix] \in DOMAIN cfg.namespaces.map
                 THEN cfg.namespaces.map[ns[prefix]]
                 ELSE ns[prefix]
    IN IF ~cfg.process_namespaces \/ prefix \notin DOMAIN ns THEN name
       ELSE IF alias = <<>> THEN local
       ELSE alias \o cfg.namespace_separator \o local

\* the key an ordinary attribute is stored under
AttrKey(cfg, ns, key) ==
    cfg.attr_prefix \o (IF cfg.process_namespaces /\ Contains(key, cfg.namespace_separator)
                        THEN Resolve(cfg, ns, key) ELSE key)

\* the text of the element about to close
ClosingText == Join(Last(text_stack), config.cdata_separator)

\* an element with ordinary attributes, non-empty text and no child closes
ClosesWithAttrsAndText ==
    /\ event' = "end"
    /\ Len(opened') < Len(opened)
    /\ config.xml_attribs
    /\ NoHook
    /\ OrdinaryAttrs(config, Last(opened).attrs) # <<>>
    /\ ClosingText # <<>>
    /\ config.strip_whitespace => Trim(ClosingText) # <<>>
    /\ Last(kids) = <<>>

NotXmlns(e) == e.key # config.attr_prefix \o XMLNS

\* C4 (as amended) Attribute prefixing: with includeAttributes on and no hook,
\* an element with ordinary attributes k1..km, non-empty text x and no children
\* yields the Mapping of attributePrefix+r(ki) -> value in document order, then
\* textKey -> x, where r resolves ki through the namespaces when
\* processNamespaces is on and ki contains the separator; it holds nothing else
\* but, with processNamespaces on, possibly the synthetic xmlns entry.
C4_AttributePrefixingResolved ==
    [][ClosesWithAttrsAndText =>
          LET attrs == OrdinaryAttrs(config, Last(opened).attrs)
              expected ==
                  [i \in 1..Len(attrs) |->
                      [key |-> AttrKey(config, Last(namespace_stack), attrs[i].key),
                       val |-> Txt(attrs[i].value)]]
                  \o <<[key |-> config.cdata_key, val |-> Txt(ClosingText)]>>
          IN /\ Newest'.k = "map"
             /\ expected = IF config.process_namespaces
                           THEN SelectSeq(Newest'.e, NotXmlns)
                           ELSE Newest'.e
       ]_vars

\* <a xmlns:n="u"><n:b n:k="v" id="5">1</n:b> with processNamespaces and no
\* alias table: b is {@xmlns: {n: u}, @u:k: v, @id: 5, #text: 1}
C4_Witness ==
    /\ status = "running"
    /\ event = "end"
    /\ config.process_namespaces
    /\ ~config.namespaces.some
    /\ Len(opened) = 1
    /\ Last(kids) # <<>>
    /\ Last(Last(kids)).val =
          Map(<<[key |-> <<"@">> \o XMLNS, val |-> Map(<<[key |-> <<"n">>, val |-> Txt(UriU)]>>)],
                [key |-> <<"@", "u", ":", "k">>, val |-> Txt(<<"v">>)],
                [key |-> <<"@", "i", "d">>, val |-> Txt(<<"5">>)],
                [key |-> config.cdata_key, val |-> Txt(<<"1">>)]>>)

\* C4 (as stated) Attribute prefixing: the Mapping holds attributePrefix+ki ->
\* value for every ordinary attribute, then textKey -> x, and nothing else.
C4_AttributePrefixing ==
    [][ClosesWithAttrsAndText =>
          LET attrs == OrdinaryAttrs(config, Last(opened).attrs) IN
          /\ Newest'.k = "map"
          /\ Newest'.e = [i \in 1..Len(attrs) |->
                             [key |-> config.attr_prefix \o attrs[i].key,
                              val |-> Txt(attrs[i].value)]]
                         \o <<[key |-> config.cdata_key, val |-> Txt(ClosingText)]>>
       ]_vars

\* a start tag introduces a namespace declaration whose URI the alias table
\* does not hold
NewDeclaration(cfg, tag) ==
    \E i \in 1..Len(tag.attrs) :
        /\ IsDeclaration(tag.attrs[i].key)
        /\ ~cfg.namespaces.some \/ tag.attrs[i].value \notin DOMAIN cfg.namespaces.map

\* a Mapping of strings as a prefix -> URI function
AsMapping(entries) ==
    [q \in {entries[j].key : j \in 1..Len(entries)} |-> DictGet(entries, q).s]

\* C5 Synthetic xmlns attribute: with processNamespaces on, every open element
\* whose start tag introduced a namespace declaration with a URI outside the
\* alias table (any declaration when there is no table) holds
\* attributePrefix+"xmlns", whose value is the namespace mapping visible in it.
C5_SyntheticXmlns ==
    (status = "running" /\ NoHook /\ config.process_namespaces /\ config.xml_attribs) =>
        \A i \in 1..Len(opened) :
            NewDeclaration(config, opened[i]) =>
                /\ DictHas(stack[ElemIndex(i)], config.attr_prefix \o XMLNS)
                /\ DictGet(stack[ElemIndex(i)], config.attr_prefix \o XMLNS).k = "map"
                /\ AsMapping(DictGet(stack[ElemIndex(i)], config.attr_prefix \o XMLNS).e)
                      = namespace_stack[i]

\* C6 Namespace resolution: the resolved name of every open element is its raw
\* name when processNamespaces is off or its prefix (the empty prefix when it
\* has none) is unbound in the element's mapping; otherwise the local name
\* alone when the alias (alias table entry of the URI, else the URI) is empty,
\* and alias + namespaceSeparator + local name when it is not.
C6_NamespaceResolution ==
    (status = "running" /\ NoHook) =>
        /\ Len(path) = Len(opened)
        /\ Len(namespace_stack) = Len(opened)
        /\ \A i \in 1..Len(opened) :
              path[i] = Resolve(config, namespace_stack[i], opened[i].name)

\* <a xmlns:n="u"><n:b ...>1</n:b> with no alias table: the child closed under
\* the key u:b
C6_Witness ==
    /\ status = "running"
    /\ config.process_namespaces
    /\ ~config.namespaces.some
    /\ Len(opened) = 1
    /\ opened[1].name = NameA
    /\ Last(kids) # <<>>
    /\ Last(Last(kids)).key = <<"u", ":", "b">>
    /\ DictHas(stack[1], <<"u", ":", "b">>)

\* C7 End-of-input validity: when Eof arrives while an element is open, parse
\* returns the error "unclosed element(s) found"; when it arrives with nothing
\* open and no root element completed, the error "no element found"; and in
\* both cases no tree.
C7_EndOfInput ==
    (event = "eof" /\ NoHook) =>
        /\ opened # <<>> => status = "err" /\ error = ErrUnclosed /\ result = NoValue
        /\ (opened = <<>> /\ rootsClosed = 0) =>
               status = "err" /\ error = ErrNoElement /\ result = NoValue
        /\ status = "ok" => opened = <<>> /\ rootsClosed > 0

\* <a><b>1</b> then Eof: a is open, b was already merged into it
C7_Witness ==
    /\ event = "eof"
    /\ Len(opened) = 1
    /\ nodes = 3
    /\ status = "err"
    /\ error = ErrUnclosed

\* C8 Single root: a successful parse returns a Mapping with exactly one
\* entry, and after the root element has closed the mapping to be returned
\* keeps exactly one entry whatever events follow.
C8_SingleRoot ==
    /\ status = "ok" => result.k = "map" /\ Len(result.e) = 1
    /\ (status = "running" /\ NoHook /\ rootsClosed > 0 /\ stack # <<>>) => Len(stack[1]) = 1

\* C9 Root dropped by the hook: once the root element has closed and the hook
\* dropped it, the builder holds no root and no residual frame, text, path or
\* namespace state, and Eof is reported as "no element found".
C9_RootDropped ==
    /\ (status = "running" /\ opened = <<>> /\ rootsClosed = 1 /\ stack = <<>>) =>
           path = <<>> /\ text_stack = <<>> /\ namespace_stack = <<>>
    /\ (event = "eof" /\ opened = <<>> /\ rootsClosed = 1 /\ status = "err") =>
           error = ErrNoElement

\* C10 Serializer root validation: in full-document mode unparse of a
\* top-level mapping with zero entries or more than one fails, with nothing
\* written (no declaration, no element) and the preprocessor never called.
C10_RootValidation ==
    (uStatus # "idle" /\ uInput.uc.full_document /\ Len(uInput.dict) # 1) =>
        /\ uStatus = "err"
        /\ uError = ErrRoot
        /\ uOutput = <<>>
        /\ uWritten = <<>>
        /\ uPreLog = <<>>

\* unparse of {a: 1, b: 2} in full-document mode with a preprocessor
C10_Witness ==
    /\ uStatus = "err"
    /\ uInput.uc.full_document
    /\ Len(uInput.dict) = 2
    /\ uInput.pre.on
    /\ uWritten = <<>>

\* whitespace normalization: the texts of a tree trimmed when strip_whitespace
RECURSIVE Normalized(_, _)
Normalized(cfg, v) ==
    CASE v.k = "text" -> IF cfg.strip_whitespace THEN Txt(Trim(v.s)) ELSE v
      [] v.k = "map" ->
            Map([i \in 1..Len(v.e) |->
                    [key |-> v.e[i].key, val |-> Normalized(cfg, v.e[i].val)]])
      [] v.k = "list" -> Lst([i \in 1..Len(v.items) |-> Normalized(cfg, v.items[i])])
      [] OTHER -> v

\* C1 Round trip: the tree a successful parse of a document with one root
\* element returned is serialized (with the matching attr_prefix and
\* cdata_key) without error, and parsing the output under the same
\* configuration returns a tree equal to it, modulo whitespace normalization.
C1_RoundTrip ==
    (status = "ok" /\ NoHook /\ rootsClosed = 1 /\ Len(result.e) = 1) =>
        /\ uStatus # "err"
        /\ reparsed # NoValue =>
              /\ reparsed.status = "ok"
              /\ Normalized(config, reparsed.result) = Normalized(config, result)

\* the markup of an element without content: <t attrs/> or <t attrs></t>
EmptyMarkup(uc, tag, attrs) ==
    <<"<">> \o tag \o attrs
    \o (IF uc.short_empty_elements THEN <<"/", ">">> ELSE <<">", "<", "/">> \o tag \o <<">">>)

\* the attribute entries of a mapping as they stand in an opening tag
RECURSIVE AttrMarkup(_, _, _)
AttrMarkup(uc, dict, i) ==
    IF i > Len(dict) THEN <<>>
    ELSE <<" ">> \o SubSeq(dict[i].key, Len(uc.attr_prefix) + 1, Len(dict[i].key))
         \o <<"=", "\"">> \o EscapeXmlAttr(ScalarText(dict[i].val)) \o <<"\"">>
         \o AttrMarkup(uc, dict, i + 1)

OnlyAttributes(uc, dict) ==
    /\ dict # <<>>
    /\ \A i \in 1..Len(dict) : StartsWith(dict[i].key, uc.attr_prefix)

\* unparse returned, and the preprocessor (if any) changed and dropped nothing
Unparsed ==
    /\ uStatus = "ok"
    /\ uInput.pre.drop = {}
    /\ Len(uInput.dict) = 1

\* C11 Empty-element serialization: a Null value under tag t is written as
\* <t/> when short_empty_elements is on and as <t></t> when it is off, at the
\* top level and as a child; a Mapping with attribute entries only is closed
\* by the same rule after its attributes.
C11_EmptyElement ==
    Unparsed =>
        LET uc == uInput.uc
            t == uInput.dict[1].key
            v == uInput.dict[1].val
            lastKid == IF v.k = "map" /\ v.e # <<>> THEN v.e[Len(v.e)] ELSE [key |-> <<>>, val |-> v]
        IN /\ v.k = "null" => uOutput = WriteHeader(uc) \o EmptyMarkup(uc, t, <<>>)
           /\ (v.k = "map" /\ OnlyAttributes(uc, v.e)) =>
                  uOutput = WriteHeader(uc) \o EmptyMarkup(uc, t, AttrMarkup(uc, v.e, 1))
           /\ (v.k = "map" /\ Len(v.e) = 2 /\ StartsWith(v.e[1].key, uc.attr_prefix)
                  /\ lastKid.val.k = "null" /\ ~StartsWith(lastKid.key, uc.attr_prefix)) =>
                  uOutput = WriteHeader(uc) \o <<"<">> \o t \o AttrMarkup(uc, <<v.e[1]>>, 1)
                            \o <<">">>
                            \o (IF uc.pretty THEN uc.newl \o uc.indent ELSE <<>>)
                            \o EmptyMarkup(uc, lastKid.key, <<>>)
                            \o (IF uc.pretty THEN uc.newl ELSE <<>>)
                            \o <<"<", "/">> \o t \o <<">">>

\* unparse of {a: {@id: 5, @k: '"<'}} with short_empty_elements
C11_Witness ==
    /\ Unparsed
    /\ uInput.uc.short_empty_elements
    /\ ~uInput.uc.full_document
    /\ uInput.dict[1].val.k = "map"
    /\ OnlyAttributes(uInput.uc, uInput.dict[1].val.e)
    /\ uOutput = <<"<", "a", " ", "i", "d", "=", "\"", "5", "\"", " ", "k", "=", "\"",
                   "&", "q", "u", "o", "t", ";", "&", "l", "t", ";", "\"", "/", ">">>

\* s with every character that has a replacement in table replaced by it
Replaced(s, table) ==
    LET Piece(c) == IF c \in DOMAIN table THEN table[c] ELSE <<c>>
        F[i \in 0..Len(s)] == IF i = 0 THEN <<>> ELSE F[i - 1] \o Piece(s[i])
    IN F[Len(s)]

TextTable ==
    [c \in {"&", "<", ">"} |->
        CASE c = "&" -> <<"&", "a", "m", "p", ";">>
          [] c = "<" -> <<"&", "l", "t", ";">>
          [] OTHER -> <<"&", "g", "t", ";">>]

AttrTable ==
    [c \in {"&", "<", ">", "\""} |->
        IF c = "\"" THEN <<"&", "q", "u", "o", "t", ";">> ELSE TextTable[c]]

\* C12 Escaping: escape_xml(s) is s with each & < > replaced by &amp; &lt;
\* &gt; and every other character kept in place; escape_xml_attr(s) replaces
\* " by &quot; as well; a string with none of these characters is returned
\* as it is.
C12_Escaping ==
    eOutput # NoValue =>
        /\ eOutput.text = Replaced(eInput, TextTable)
        /\ eOutput.attr = Replaced(eInput, AttrTable)
        /\ (\A i \in 1..Len(eInput) : eInput[i] \notin DOMAIN TextTable) =>
               eOutput.text = eInput
        /\ (\A i \in 1..Len(eInput) : eInput[i] \notin DOMAIN AttrTable) =>
               eOutput.attr = eInput

\* the string >"& escaped both ways
C12_Witness ==
    /\ eInput = <<">", "\"", "&">>
    /\ eOutput # NoValue
    /\ eOutput.text = <<"&", "g", "t", ";", "\"", "&", "a", "m", "p", ";">>
    /\ eOutput.attr = <<"&", "g", "t", ";", "&", "q", "u", "o", "t", ";", "&", "a", "m", "p", ";">>

\* the calls of the force_list predicate among the hook calls of the last event
ForceCalls == LET IsForce(c) == c.fn = "force" IN SelectSeq(hookLog, IsForce)

\* parse returned the error a hook raised
HookAborted == status = "err" /\ error = ErrHook

\* the state part of C13
HookErrorReturned ==
    /\ HookAborted =>
          /\ result = NoValue
          /\ hookLog # <<>>
          /\ stack = <<>> /\ path = <<>> /\ text_stack = <<>> /\ namespace_stack = <<>>
    \* a postprocessor that always raises: the first call of an event is its last
    /\ config.postprocessor = {"raise"} =>
          /\ Len(hookLog) <= 1
          /\ Len(hookLog) = 1 => HookAborted
    \* a predicate that may raise, after a postprocessor that does not: the
    \* error comes from the predicate, and its call is the last hook call
    /\ (config.postprocessor = {"keep"} /\ config.force_list.shape = "pred" /\ HookAborted) =>
          /\ Last(hookLog).fn = "force"
          /\ Len(ForceCalls) = 1
    \* the preprocessor: the call that raised is the last one, and unparse
    \* returns the error and no string
    /\ (uStatus # "idle" /\ \E c \in 1..Len(uPreLog) : uPreLog[c].key \in uInput.pre.raise) =>
          /\ uStatus = "err"
          /\ uError = ErrHook
          /\ uOutput = <<>>
          /\ \A c \in 1..Len(uPreLog) : uPreLog[c].key \in uInput.pre.raise <=> c = Len(uPreLog)

\* C13 Hook errors abort: when the postprocessor or the force_list predicate
\* raises, parse returns that error and no tree, the raising call is the last
\* hook call and no event is handled afterwards; when the preprocessor raises,
\* unparse returns that error and no string, and nothing is done afterwards.
C13_HookErrorsAbort ==
    /\ []HookErrorReturned
    /\ [][(status # "running" => UNCHANGED parseVars)
           /\ (uStatus # "idle" => UNCHANGED unparseVars)]_vars

\* <a><b/> with a predicate that raises when asked about b, after the
\* postprocessor returned the entry as it was
C13_Witness ==
    /\ HookAborted
    /\ config.force_list.shape = "pred"
    /\ Len(opened) = 2
    /\ Len(hookLog) = 2
    /\ hookLog[1].fn = "post"
    /\ hookLog[2].fn = "force"
    /\ result = NoValue

\* the bytes pending still holds
PendingBytesLeft == SubSeq(pending.buf, pending.offset + 1, Len(pending.buf))

Min(a, b) == IF a < b THEN a ELSE b

\* C14 (adapter stream fidelity): for both adapters, a read puts at most the
\* buffer's size of bytes into the buffer; while bytes of an earlier chunk
\* are pending, a read delivers them (as many as fit) without calling the
\* foreign source; and the bytes delivered so far, followed by the pending
\* ones, are the bytes of the chunks handed over so far, in order.
C14_StreamFidelity ==
    /\ delivered \o PendingBytesLeft = taken
    /\ lastRead # NoValue =>
          /\ Len(lastRead.out) <= lastRead.size
          /\ lastRead.surplus > 0 =>
                /\ lastRead.asked = <<>>
                /\ lastRead.k = "ok"
                /\ Len(lastRead.out) = Min(lastRead.size, lastRead.surplus)
                /\ Len(PendingBytesLeft) = lastRead.surplus - Len(lastRead.out)

\* a three-byte chunk was read from a file through smaller buffers, the last
\* read taking what was pending
C14_Witness ==
    /\ adapter = "file_like"
    /\ lastRead # NoValue
    /\ lastRead.surplus > 0
    /\ PendingBytesLeft = <<>>
    /\ delivered = <<"b", "c", "d">>
    /\ reads >= 2

\* what an adapter must refuse: a raised exception; for the generator, None
\* and anything that is not a string, a byte sequence or a byte view; for the
\* file-like object, anything that is not a byte sequence
Rejected(ad, answer) ==
    \/ answer.k = "raise"
    \/ ad = "generator" /\ answer.k \notin {"str", "bytes", "bytearray", "memoryview", "stop"}
    \/ ad = "file_like" /\ answer.k \notin {"bytes", "bytearray"}

\* C15 (adapter rejections): a read in which the foreign source raises or
\* answers with something the adapter must refuse fails with an error; it
\* neither reports an end of stream nor delivers bytes.
C15_Rejections ==
    lastRead # NoValue =>
        ((\E i \in DOMAIN lastRead.asked : Rejected(adapter, lastRead.asked[i])) =>
            /\ lastRead.k = "err"
            /\ lastRead.err # NoValue
            /\ lastRead.out = <<>>)

\* after delivering bytes, the file-like read returned a text string and the
\* read failed
C15_Witness ==
    /\ adapter = "file_like"
    /\ lastRead # NoValue
    /\ lastRead.asked = <<[k |-> "str", b |-> <<"e", "f">>]>>
    /\ lastRead.k = "err"
    /\ delivered # <<>>

\* the last answer of the foreign source to the last read
LastAnswer == lastRead.asked[Len(lastRead.asked)]

\* C16 (adapter error identity): when the foreign source raises during a
\* read, the parse returns that very exception (same object, type and value);
\* unwrapping a wrapped exception gives it back, and the I/O branch of the
\* error mapping returns the unwrapped original.
C16_ErrorIdentity ==
    /\ \A e \in SourceErrors :
          /\ PyerrFromIo(PyerrToIo(e)) = [some |-> TRUE, err |-> e]
          /\ MapQuickXmlError(QuickXmlIo(PyerrToIo(e))) = e
    /\ (status = "err" /\ lastRead # NoValue /\ lastRead.asked # <<>>
          /\ LastAnswer.k = "raise") => error = LastAnswer.e

\* a generator raised ValueError after some bytes were delivered, and the
\* parse returned it
C16_Witness ==
    /\ adapter = "generator"
    /\ status = "err"
    /\ delivered # <<>>
    /\ lastRead.asked # <<>>
    /\ LastAnswer.k = "raise"
    /\ error = PyErr("ValueError", "bad", 2)

\* the last handled event made a push_data call that returned without error
Merging == status = "running" /\ lastMerge # NoValue /\ config.postprocessor # {}

\* the postprocessor's call for the entry push_data merges: the last of the
\* handler's calls of it
PostCalls == SelectSeq(hookLog, LAMBDA c : c.fn = "post")
MergeCall == Last(PostCalls)

\* what the postprocessor returned for that call (when it returned a pair)
HookedKey == IF lastMerge.o = "rekey" THEN HookKey ELSE MergeCall.key
HookedVal == IF lastMerge.o = "reval" THEN HookVal ELSE MergeCall.val

\* C17 (merge asymmetry): when the postprocessor returns a value different
\* from the one it was given and the target mapping already holds a list
\* under the returned key, the value given to the hook is appended to that
\* list; when the existing entry is not a list, the entry becomes the list of
\* the existing value and the returned value.
C17_MergeAsymmetry ==
    (/\ Merging
     /\ lastMerge.o # "drop"
     /\ HookedVal # MergeCall.val
     /\ DictHas(lastMerge.item, HookedKey)) =>
        LET existing == DictGet(lastMerge.item, HookedKey) IN
        IF existing.k = "list"
        THEN Last(stack) = DictSet(lastMerge.item, HookedKey,
                                   Lst(Append(existing.items, MergeCall.val)))
        ELSE Last(stack) = DictSet(lastMerge.item, HookedKey, Lst(<<existing, HookedVal>>))

\* the third of three sibling elements closed, the postprocessor returned
\* another value for it, and the list of the first two was extended
C17_Witness ==
    /\ Merging
    /\ lastMerge.o = "reval"
    /\ DictHas(lastMerge.item, NameA)
    /\ DictGet(lastMerge.item, NameA).k = "list"
    /\ Len(DictGet(lastMerge.item, NameA).items) = 2
    /\ Len(DictGet(Last(stack), NameA).items) = 3

\* C18 (merge with a dropped entry): when the postprocessor returns None in
\* the merge rule, the target mapping is left exactly as it was (nothing
\* inserted, no existing entry extended or promoted) and the force-list
\* policy is not consulted.
C18_DroppedEntry ==
    (Merging /\ lastMerge.o = "drop") =>
        /\ PostCalls # <<>>
        /\ Last(stack) = lastMerge.item
        /\ ForceCalls = <<>>

\* an element was dropped whose parent already held a list under its name
C18_Witness ==
    /\ Merging
    /\ lastMerge.o = "drop"
    /\ event = "end"
    /\ DictHas(lastMerge.item, NameA)
    /\ DictGet(lastMerge.item, NameA).k = "list"

\* the last handled event made a push_data call in which the postprocessor
\* returned a pair
Kept == lastMerge # NoValue /\ PostCalls # <<>> /\ lastMerge.o \notin {"drop", "raise"}

\* C19 (force-list consulted only at first occurrence): the force-list policy
\* is consulted at most once per merge, after the postprocessor has run, with
\* the key and value the postprocessor returned, and only when the target
\* mapping has no entry under that key; it is not consulted for a key that
\* already has an entry, nor for attribute entries or the text entry.
C19_ForceListFirstOccurrence ==
    /\ event \notin {"end", "comment"} => ForceCalls = <<>>
    /\ Len(ForceCalls) <= 1
    /\ \A i \in 1..Len(hookLog) :
          hookLog[i].fn = "force" =>
             /\ i = Len(hookLog)
             /\ i > 1
             /\ hookLog[i - 1] = MergeCall
             /\ Kept
             /\ hookLog[i].key = HookedKey
             /\ hookLog[i].val = HookedVal
             /\ ~DictHas(lastMerge.item, HookedKey)
    /\ (Kept /\ DictHas(lastMerge.item, HookedKey)) => ForceCalls = <<>>
    /\ (Kept /\ ~DictHas(lastMerge.item, HookedKey) /\ config.force_list.shape = "pred") =>
          Len(ForceCalls) = 1

\* an element with an attribute and text closed inside its parent: the
\* postprocessor renamed its text entry and then the element, and the
\* predicate was asked once, about the renamed element
C19_Witness ==
    /\ Merging
    /\ event = "end"
    /\ lastMerge.o = "rekey"
    /\ Len(PostCalls) = 2
    /\ PostCalls[1].key = config.cdata_key
    /\ MergeCall.key = NameA
    /\ ForceCalls = <<[fn |-> "force", path |-> path, key |-> HookKey, val |-> MergeCall.val]>>

\* the value an end tag gave its element: the entry merged into the parent,
\* or the root entry when the element had no parent (read after the step)
ClosedValue(depth, ks, stk) ==
    IF depth = 1 THEN stk[1][1].val ELSE Last(Last(ks)).raw

\* what the final value of an element must be, from its mapping and its text
ExpectedFinalValue(cfg, mapping, tc) ==
    CASE mapping = <<>> /\ ~tc.some -> Null
      [] mapping = <<>> /\ tc.some /\ ~cfg.force_cdata -> Txt(tc.text)
      [] mapping = <<>> /\ tc.some /\ cfg.force_cdata ->
            Map(<<[key |-> cfg.cdata_key, val |-> Txt(tc.text)]>>)
      [] mapping # <<>> /\ tc.some -> Map(DictSet(mapping, cfg.cdata_key, Txt(tc.text)))
      [] OTHER -> Map(mapping)

\* C20 (final value of an element at its end tag, no hook): Null when the
\* element's mapping is empty and it has no text; the bare text when the
\* mapping is empty, it has text and force_cdata is off; the single-entry
\* mapping {cdata_key: text} when force_cdata is on; the mapping with
\* cdata_key -> text set when the mapping is non-empty and it has text; the
\* mapping unchanged when it is non-empty and there is no text.
C20_FinalValue ==
    [][(status = "running" /\ status' = "running" /\ event' = "end"
          /\ config.postprocessor = {}) =>
         ClosedValue(Len(stack), kids', stack') =
            ExpectedFinalValue(config, Last(stack), TextContent(config, Last(text_stack)))]_vars

\* an element with attributes and text closed inside its parent: its value
\* is the mapping of the attributes with the text entry
C20_Witness ==
    /\ status = "running"
    /\ event = "end"
    /\ config.postprocessor = {}
    /\ stack # <<>>
    /\ kids # <<>>
    /\ Last(kids) # <<>>
    /\ Last(Last(kids)).raw.k = "map"
    /\ DictHas(Last(Last(kids)).raw.e, <<"@">> \o AttrId.key)
    /\ DictHas(Last(Last(kids)).raw.e, config.cdata_key)
    /\ DictGet(Last(Last(kids)).raw.e, config.cdata_key) = Txt(<<"1">>)

\* the strings a Text or CData event can carry to the builder: the reader
\* trims text when strip_whitespace is on, CDATA comes as written
EventStrings(kind) ==
    IF kind = "cdata" THEN vocab.cdatas
    ELSE {IF config.strip_whitespace THEN Trim(t) ELSE t : t \in vocab.texts}

\* the text held by the value of a closed element
TextOf(v) ==
    CASE v.k = "text" -> [some |-> TRUE, text |-> v.s]
      [] v.k = "map" /\ DictHas(v.e, config.cdata_key) ->
            [some |-> TRUE, text |-> DictGet(v.e, config.cdata_key).s]
      [] OTHER -> [some |-> FALSE, text |-> <<>>]

\* C21 (text accumulation and whitespace policy): a Text or CData event
\* appends its string to the fragment list of the innermost open element and
\* changes nothing else of the builder; at the end tag the element's text is
\* the fragments joined in arrival order with cdata_separator, there is no
\* text when there are no fragments or when strip_whitespace is on and the
\* joined text trims to nothing, and otherwise the joined text is kept
\* untrimmed.
C21_TextAccumulation ==
    [][/\ (status = "running" /\ status' = "running" /\ event' \in {"text", "cdata"}) =>
            /\ UNCHANGED <<stack, path, namespace_stack, opened, kids, rootsClosed>>
            /\ IF text_stack = <<>> THEN text_stack' = <<>>
               ELSE \E t \in EventStrings(event') :
                       text_stack' = Append(Front(text_stack), Append(Last(text_stack), t))
       /\ (status = "running" /\ status' = "running" /\ event' = "end"
              /\ config.postprocessor = {}) =>
            LET joined == Join(Last(text_stack), config.cdata_separator)
                none == \/ Last(text_stack) = <<>>
                        \/ config.strip_whitespace /\ Trim(joined) = <<>>
            IN TextOf(ClosedValue(Len(stack), kids', stack')) =
                  IF none THEN [some |-> FALSE, text |-> <<>>]
                  ELSE [some |-> TRUE, text |-> joined]]_vars

\* the root closed with text before and after a child element and a CDATA
\* section of one space: its text is the three fragments joined, untrimmed
C21_Witness ==
    /\ status = "running"
    /\ event = "end"
    /\ config.strip_whitespace
    /\ stack = << <<[key |-> NameA,
                     val |-> Map(<<[key |-> NameA, val |-> Null],
                                   [key |-> config.cdata_key,
                                    val |-> Txt(<<" ", "-", "1", "-", "2">>)]>>)]>> >>

\* C22 (top-level comments are ignored): with process_comments on, a Comment
\* event that arrives while no element is open, before the root element or
\* after it has closed, leaves the builder's stacks, and with them the tree
\* parse returns, unchanged.
C22_TopLevelComment ==
    [][(status = "running" /\ event' = "comment" /\ config.process_comments
          /\ opened = <<>>) =>
         UNCHANGED <<stack, path, text_stack, namespace_stack, status>>]_vars

\* the merge rule without hooks: the mapping after (key, value) is merged
MergedInto(cfg, item, key, value) ==
    IF DictHas(item, key)
    THEN LET existing == DictGet(item, key) IN
         IF existing.k = "list" THEN DictSet(item, key, Lst(Append(existing.items, value)))
         ELSE DictSet(item, key, Lst(<<existing, value>>))
    ELSE LET forced == \/ cfg.force_list.shape = "bool" /\ cfg.force_list.val
                       \/ cfg.force_list.shape = "set" /\ key \in cfg.force_list.keys
         IN DictSet(item, key, IF forced THEN Lst(<<value>>) ELSE value)

\* C23 (comments inside an element): a Comment event changes the builder only
\* when process_comments is on; then a comment inside an open element is
\* merged into that element's mapping under comment_key by the merge rule of
\* child elements (a second comment makes a list, force_list applies), its
\* text trimmed when strip_whitespace is on and as written otherwise.
C23_CommentInside ==
    [][(status = "running" /\ event' = "comment" /\ config.postprocessor = {}
          /\ config.force_list.shape # "pred") =>
         /\ UNCHANGED <<path, text_stack, namespace_stack, status>>
         /\ ~config.process_comments => UNCHANGED stack
         /\ (config.process_comments /\ opened # <<>>) =>
               \E c \in vocab.comments :
                  stack' = Append(Front(stack),
                                  MergedInto(config, Last(stack), config.comment_key,
                                             Txt(IF config.strip_whitespace THEN Trim(c)
                                                 ELSE c)))]_vars

\* a second comment inside the root made a list of two trimmed comments
C23_Witness ==
    /\ status = "running"
    /\ event = "comment"
    /\ opened # <<>>
    /\ Last(stack) = <<[key |-> config.comment_key,
                          val |-> Lst(<<Txt(<<"c">>), Txt(<<"c">>)>>)]>>

\* the prefix a declaration binds (the empty prefix for xmlns)
DeclaredPrefix(key) == IF key = XMLNS THEN <<>> ELSE SubSeq(key, Len(XMLNS) + 2, Len(key))

\* C24 (namespace declarations on a start tag): with process_namespaces on,
\* whatever xml_attribs is, after a start tag every xmlns / xmlns:prefix
\* attribute of the tag is in the element's namespace mapping (xmlns under the
\* empty prefix), the element's name is resolved against that mapping, and no
\* declaration is stored as an attr_prefix-ed attribute entry.
C24_OwnDeclarations ==
    (status = "running" /\ event = "start" /\ config.process_namespaces /\ NoHook) =>
        LET tag == Last(opened)
            ns == Last(namespace_stack)
        IN /\ \A i \in 1..Len(tag.attrs) :
                 IsDeclaration(tag.attrs[i].key) =>
                    /\ DeclaredPrefix(tag.attrs[i].key) \in DOMAIN ns
                    /\ ns[DeclaredPrefix(tag.attrs[i].key)] = tag.attrs[i].value
                    /\ \A j \in 1..Len(Last(stack)) :
                          Last(stack)[j] # [key |-> config.attr_prefix \o tag.attrs[i].key,
                                            val |-> Txt(tag.attrs[i].value)]
           /\ Last(path) = Resolve(config, ns, tag.name)

\* a namespace mapping extended with the declarations among attrs, in order
RECURSIVE Declare(_, _)
Declare(ns, attrs) ==
    IF attrs = <<>> THEN ns
    ELSE Declare(IF IsDeclaration(Head(attrs).key)
                 THEN NsInsert(ns, DeclaredPrefix(Head(attrs).key), Head(attrs).value)
                 ELSE ns,
                 Tail(attrs))

\* the bindings in scope of the i-th open element: those declared on the open
\* elements 1..i, an inner declaration of a prefix hiding the outer ones
RECURSIVE Scope(_)
Scope(i) == IF i = 0 THEN EmptyNs ELSE Declare(Scope(i - 1), opened[i].attrs)

\* every open element has the mapping of the declarations on itself and on
\* its ancestors, and has its name resolved against it
ScopedMappings ==
    (status = "running" /\ config.process_namespaces /\ config.xml_attribs /\ NoHook) =>
        /\ Len(namespace_stack) = Len(opened)
        /\ Len(path) = Len(opened)
        /\ \A i \in 1..Len(opened) :
              /\ namespace_stack[i] = Scope(i)
              /\ path[i] = Resolve(config, Scope(i), opened[i].name)

\* an element that closes is merged under its name resolved against its own
\* mapping, and the mappings of the enclosing elements are left as they were
ScopeEnds ==
    (/\ status = "running" /\ status' = "running" /\ event' = "end"
     /\ config.process_namespaces /\ config.xml_attribs /\ NoHook) =>
        /\ namespace_stack' = Front(namespace_stack)
        /\ Len(opened) >= 2 =>
              Last(Last(kids')).key = Resolve(config, Scope(Len(opened)), Last(opened).name)

C26_LockStep ==
    status = "running" =>
        /\ Len(path) = Len(opened)
        /\ Len(text_stack) = Len(opened)
        /\ Len(namespace_stack) = Len(opened)

\* the resolved names of the first n open elements, from the root down
Ancestors(n) == [i \in 1..n |-> Resolve(config, Scope(i), opened[i].name)]

\* the number of ancestors of the element the last start or end tag was
\* about: a tag that failed left the open elements as they were
Depth ==
    IF event = "start" THEN (IF status = "running" THEN Len(opened) - 1 ELSE Len(opened))
    ELSE (IF status = "running" THEN Len(opened) ELSE Len(opened) - 1)

\* C27 (path seen by the hooks): every call of the postprocessor or of the
\* force_list predicate made for an element, for its attributes at its start
\* tag, for its text entry at its end tag and for its own name and value when
\* it is merged or becomes the root, is given the resolved names of the
\* element's ancestors, from the root down to its parent, without the
\* element's own name (the empty path for the root).
C27_HookPath ==
    (event \in {"start", "end"} /\ hookLog # <<>>) =>
        \A i \in 1..Len(hookLog) : hookLog[i].path = Ancestors(Depth)

\* n:b closed inside a: the hook was called for its text entry and for the
\* element, the predicate for the element, each with the path of a alone
C27_Witness ==
    /\ status = "running"
    /\ event = "end"
    /\ config.process_namespaces
    /\ Len(opened) = 1
    /\ Len(hookLog) = 3
    /\ hookLog[1].key = config.cdata_key
    /\ hookLog[3].fn = "force"
    /\ hookLog[3].key = <<"u", ":", "b">>
    /\ hookLog[3].path = <<NameA>>

(***************************************************************************)
(* C28: an end tag with no element open                                    *)
(***************************************************************************)
\* an end tag arrived while no element was open (before any start tag, or
\* after the root element closed)
StrayEndTag == event = "end_mismatch" /\ opened = <<>>

MalformedTag ==
    /\ tagName # NoValue
    /\ ~ValidElementName(tagName.s)

\* the parse failed with err, no hook was invoked for the event and no tree
\* is returned
FailedWith(err) ==
    /\ status = "err"
    /\ error = err
    /\ hookLog = <<>>
    /\ result = NoValue

AttrEntries(uc, m) ==
    LET Test(e) == StartsWith(e.key, uc.attr_prefix) IN SelectSeq(m, Test)
TextEntries(uc, m) ==
    LET Test(e) == e.key = uc.cdata_key IN SelectSeq(m, Test)
RestEntries(uc, m) ==
    LET Test(e) == ~StartsWith(e.key, uc.attr_prefix) /\ e.key # uc.cdata_key
    IN SelectSeq(m, Test)

\* the markup of child entries holding Null or a string, one level down
RECURSIVE ChildMarkup(_, _, _)
ChildMarkup(uc, entries, i) ==
    IF i > Len(entries) THEN <<>>
    ELSE (IF uc.pretty THEN uc.newl \o uc.indent ELSE <<>>)
         \o (IF entries[i].val.k = "null" THEN EmptyMarkup(uc, entries[i].key, <<>>)
             ELSE <<"<">> \o entries[i].key \o <<">">> \o EscapeXml(ScalarText(entries[i].val))
                  \o <<"<", "/">> \o entries[i].key \o <<">">>)
         \o ChildMarkup(uc, entries, i + 1)

\* the element t of the mapping m: attributes in the opening tag, then the
\* text, then the children
PartitionMarkup(uc, t, m) ==
    LET attrs == AttrMarkup(uc, AttrEntries(uc, m), 1)
        text == TextEntries(uc, m)
        rest == RestEntries(uc, m)
    IN IF text = <<>> /\ rest = <<>> THEN EmptyMarkup(uc, t, attrs)
       ELSE <<"<">> \o t \o attrs \o <<">">>
            \o (IF text = <<>> THEN <<>> ELSE EscapeXml(ScalarText(text[1].val)))
            \o ChildMarkup(uc, rest, 1)
            \o (IF rest # <<>> /\ uc.pretty THEN uc.newl ELSE <<>>)
            \o <<"<", "/">> \o t \o <<">">>

\* C30 Mapping partition in the serializer: every entry whose key starts with
\* attr_prefix is written as an attribute (the key without the prefix) inside
\* the opening tag, in key order; the entry whose key is cdata_key is written
\* as the element's text right after the opening tag; the remaining entries
\* are written as child elements after the text, in key order; wherever the
\* attribute and text keys sit among the mapping's keys.
C30_MappingPartition ==
    (uStatus = "ok" /\ uInput # NoValue /\ uInput.dict[1].val.k = "map") =>
        uOutput = WriteHeader(uInput.uc)
                  \o PartitionMarkup(uInput.uc, uInput.dict[1].key, uInput.dict[1].val.e)

(***************************************************************************)
(* C31: scalars in the serializer                                          *)
(***************************************************************************)
\* a scalar as text and as attribute value: the literal for a boolean, the
\* escaped string otherwise
RenderedText(v) ==
    IF v.k = "bool" THEN (IF v.b THEN TRUE_TEXT ELSE FALSE_TEXT) ELSE EscapeXml(v.s)
RenderedAttr(v) ==
    IF v.k = "bool" THEN (IF v.b THEN TRUE_TEXT ELSE FALSE_TEXT) ELSE EscapeXmlAttr(v.s)

\* <t>text</t>
TextElement(t, v) == <<"<">> \o t \o <<">">> \o RenderedText(v) \o <<"<", "/">> \o t \o <<">">>

\* how many times the character c stands in s
CountOf(c, s) == Cardinality({i \in 1..Len(s) : s[i] = c})

\* every '&' of s starts one of the entities the escaping functions write
AmpsStartEntities(s) ==
    \A i \in 1..Len(s) :
       s[i] = "&" =>
          \E ent \in {ESCAPED_AMP, ESCAPED_LT, ESCAPED_GT, <<"&", "q", "u", "o", "t", ";">>} :
             /\ i + Len(ent) - 1 <= Len(s)
             /\ SubSeq(s, i, i + Len(ent) - 1) = ent

\* the quotes of a scalar written as text, which stay as they are
TextQuotes(v) == IF v.k = "text" THEN CountOf("\"", v.s) ELSE 0

\* the markup unparse is to return for the element t holding v, the number of
\* tags and of attributes in it, and the number of quotes in its text
ScalarMarkup(uc, t, v) ==
    CASE v.k \in {"bool", "text"} -> [out |-> TextElement(t, v), tags |-> 2, attrs |-> 0, quotes |-> TextQuotes(v)]
      [] v.k = "list" ->
           [out |-> TextElement(t, v.items[1]) \o (IF uc.pretty THEN uc.newl ELSE <<>>)
                    \o TextElement(t, v.items[2]),
            tags |-> 4, attrs |-> 0,
            quotes |-> TextQuotes(v.items[1]) + TextQuotes(v.items[2])]
      [] Len(v.e) = 2 ->
           [out |-> <<"<">> \o t \o <<" ", "k", "=", "\"">> \o RenderedAttr(v.e[1].val)
                    \o <<"\"", ">">> \o RenderedText(v.e[2].val) \o <<"<", "/">> \o t \o <<">">>,
            tags |-> 2, attrs |-> 1, quotes |-> TextQuotes(v.e[2].val)]
      [] v.e[1].key = TextKey ->
           [out |-> TextElement(t, v.e[1].val), tags |-> 2, attrs |-> 0,
            quotes |-> TextQuotes(v.e[1].val)]
      [] OTHER ->
           [out |-> EmptyMarkup(uc, t, <<" ", "k", "=", "\"">> \o RenderedAttr(v.e[1].val)
                                       \o <<"\"">>),
            tags |-> IF uc.short_empty_elements THEN 1 ELSE 2, attrs |-> 1, quotes |-> 0]

\* C31 Scalar rendering in the serializer: a boolean attribute value, text
\* entry or bare value is written as true or false; every other attribute
\* value is written through escape_xml_attr and every other text entry or
\* bare scalar through escape_xml, so that the only '<' and '>' of the output
\* are those of the tags, the only '"' outside text are those around the
\* attribute values, and every '&' starts an entity; a bare scalar under tag
\* t is written as <t>text</t>.
C31_ScalarRendering ==
    (uStatus = "ok" /\ uInput # NoValue) =>
        \E m \in {ScalarMarkup(uInput.uc, uInput.dict[1].key, uInput.dict[1].val)} :
           /\ uOutput = m.out
           /\ CountOf("<", uOutput) = m.tags
           /\ CountOf(">", uOutput) = m.tags
           /\ CountOf("\"", uOutput) = 2 * m.attrs + m.quotes
           /\ AmpsStartEntities(uOutput)

\* reached: a quote and '>' in the attribute value, '<' and '&' in the text
C31_Witness ==
    /\ uStatus = "ok"
    /\ uInput.dict[1].val = Map(<<[key |-> AttrKeyK, val |-> Txt(<<"\"", ">">>)],
                                  [key |-> TextKey, val |-> Txt(<<"<", "&">>)]>>)
    /\ uOutput = <<"<", "a", " ", "k", "=", "\"", "&", "q", "u", "o", "t", ";", "&", "g", "t", ";",
                   "\"", ">", "&", "l", "t", ";", "&", "a", "m", "p", ";", "<", "/", "a", ">">>

(***************************************************************************)
(* C32: pretty-printing                                                    *)
(***************************************************************************)
\* one newline and the indentation of depth enclosing elements
PrettyLead(uc, depth, led) ==
    IF uc.pretty /\ led THEN uc.newl \o Repeat(uc.indent, depth) ELSE <<>>

\* The markup of the element t holding v at the given depth, every element
\* of it led by one newline and its indentation (led: also the first one),
\* the closing tag of an element with child entries by one newline and that
\* element's indentation.
RECURSIVE PrettyElement(_, _, _, _, _)
RECURSIVE PrettyItems(_, _, _, _, _, _)
RECURSIVE PrettyChildren(_, _, _, _)
PrettyElement(uc, t, v, depth, led) ==
    CASE v.k = "null" -> PrettyLead(uc, depth, led) \o EmptyMarkup(uc, t, <<>>)
      [] v.k = "list" -> PrettyItems(uc, t, v.items, 1, depth, led)
      [] v.k = "map" ->
           LET attrs == AttrMarkup(uc, AttrEntries(uc, v.e), 1)
               text == TextEntries(uc, v.e)
               rest == RestEntries(uc, v.e)
           IN PrettyLead(uc, depth, led)
              \o (IF text = <<>> /\ rest = <<>> THEN EmptyMarkup(uc, t, attrs)
                  ELSE <<"<">> \o t \o attrs \o <<">">>
                       \o (IF text = <<>> THEN <<>> ELSE EscapeXml(ScalarText(text[1].val)))
                       \o PrettyChildren(uc, rest, 1, depth + 1)
                       \o (IF rest # <<>> THEN PrettyLead(uc, depth, TRUE) ELSE <<>>)
                       \o <<"<", "/">> \o t \o <<">">>)
      [] OTHER -> PrettyLead(uc, depth, led) \o TextElement(t, v)
PrettyItems(uc, t, items, i, depth, led) ==
    IF i > Len(items) THEN <<>>
    ELSE PrettyElement(uc, t, items[i], depth, led \/ i > 1)
         \o PrettyItems(uc, t, items, i + 1, depth, led)
PrettyChildren(uc, entries, i, depth) ==
    IF i > Len(entries) THEN <<>>
    ELSE PrettyElement(uc, entries[i].key, entries[i].val, depth, TRUE)
         \o PrettyChildren(uc, entries, i + 1, depth)

\* the top-level entries from entry i on: all but the first are led
RECURSIVE PrettyEntries(_, _, _)
PrettyEntries(uc, dict, i) ==
    IF i > Len(dict) THEN <<>>
    ELSE PrettyElement(uc, dict[i].key, dict[i].val, 0, i > 1) \o PrettyEntries(uc, dict, i + 1)

\* C32 Pretty-printing: with pretty on, every element written that is not
\* the first top-level node, the items of a list included, is preceded by
\* exactly one newl and indent repeated once per enclosing element, and the
\* closing tag of an element with child entries by one newl and the element's
\* own indentation; with pretty off no newl and no indent is written.
C32_PrettyPrinting ==
    (uStatus = "ok" /\ uInput # NoValue) =>
        /\ uOutput = PrettyEntries(uInput.uc, uInput.dict, 1)
        /\ ~uInput.uc.pretty =>
              \A i \in 1..Len(uOutput) : uOutput[i] \notin {"\n", "\t"}

(***************************************************************************)
(* C33: nodes the preprocessor suppresses                                  *)
(***************************************************************************)
\* the entries without those whose key the preprocessor suppresses
WithoutSuppressed(pre, entries) ==
    LET Test(e) == e.key \notin pre.drop IN SelectSeq(entries, Test)

\* the input without the suppressed entries, at the top level and among the
\* child entries of the top-level elements
Unsuppressed(pre, dict) ==
    LET top == WithoutSuppressed(pre, dict) IN
    [i \in 1..Len(top) |->
        IF top[i].val.k = "map"
        THEN [key |-> top[i].key, val |-> Map(WithoutSuppressed(pre, top[i].val.e))]
        ELSE top[i]]

\* C33 Suppressed nodes in the serializer: when the preprocessor returns None
\* for (tag, value) nothing is written for that node, no markup and no
\* newline or indent, its value is not descended into, and the siblings that
\* follow it are written: the output is the output for the input without the
\* node (after the newline of the second top-level entry when the node was
\* the first one), and the preprocessor is called for the node but for
\* nothing inside it.
C33_SuppressedNodes ==
    (uStatus = "ok" /\ uInput # NoValue /\ uInput.pre.on /\ uInput.pre.drop # {}) =>
        /\ uOutput = PrettyLead(uInput.uc, 0, uInput.dict[1].key \in uInput.pre.drop)
                      \o UnparseCall(uInput.uc, NoPreprocessor,
                                     Unsuppressed(uInput.pre, uInput.dict)).output
        /\ \A i \in 1..Len(uPreLog) : uPreLog[i].key # KeyC
        /\ Cardinality({i \in 1..Len(uPreLog) : uPreLog[i].key \in uInput.pre.drop}) = 1

\* reached: pretty-printed, a suppressed mapping between two child entries
C33_Witness ==
    /\ uStatus = "ok"
    /\ uInput.pre = SuppressingPreprocessor
    /\ uInput.uc.pretty
    /\ uInput.uc.short_empty_elements
    /\ uInput.dict = <<[key |-> NameA,
                        val |-> Map(<<[key |-> NameA, val |-> Txt(<<"1">>)],
                                      [key |-> NameB,
                                       val |-> Map(<<[key |-> KeyC, val |-> Txt(<<"2">>)]>>)],
                                      [key |-> KeyD, val |-> Null]>>)]>>
    /\ uOutput = <<"<", "a", ">", "\n", "\t", "<", "a", ">", "1", "<", "/", "a", ">",
                   "\n", "\t", "<", "d", "/", ">", "\n", "<", "/", "a", ">">>

(***************************************************************************)
(* C34: the declaration line                                               *)
(***************************************************************************)
\* <?xml version="1.0" encoding="E"?>
Declaration(encoding) ==
    <<"<", "?", "x", "m", "l", " ", "v", "e", "r", "s", "i", "o", "n", "=", "\"", "1", ".", "0",
      "\"", " ", "e", "n", "c", "o", "d", "i", "n", "g", "=", "\"">> \o encoding
    \o <<"\"", "?", ">">>

\* C34 Declaration line: with full_document the output begins with the
\* declaration for the configured encoding and the configured newl, pretty
\* or not, and all the markup of the elements comes after it; without
\* full_document no declaration is written and the entries of the top-level
\* mapping, however many, are written one by one in key order.
C34_DeclarationLine ==
    (uStatus = "ok" /\ uInput # NoValue) =>
        /\ uInput.uc.full_document =>
              /\ uOutput = Declaration(uInput.uc.encoding) \o uInput.uc.newl
                            \o PrettyElement(uInput.uc, uInput.dict[1].key, uInput.dict[1].val,
                                             0, FALSE)
              /\ CountOf("?", uOutput) = 2
        /\ ~uInput.uc.full_document =>
              /\ uOutput = PrettyEntries(uInput.uc, uInput.dict, 1)
              /\ CountOf("?", uOutput) = 0

\* reached: a declaration with another label and newline, pretty off
C34_Witness ==
    /\ uStatus = "ok"
    /\ uInput.uc.full_document
    /\ ~uInput.uc.pretty
    /\ uInput.uc.encoding = <<"l", "1">>
    /\ uInput.uc.newl = <<"\r", "\n">>
    /\ uOutput = Declaration(<<"l", "1">>) \o <<"\r", "\n", "<", "a", ">", "1", "<", "/", "a", ">">>

(***************************************************************************)
(* C35: one root element in the output                                     *)
(***************************************************************************)
\* The number of top-level elements in the markup s, read from position i on
\* at nesting depth depth: a start tag at depth 0 opens a top-level element,
\* <t .../> closes at once, </t> closes the innermost one, <?...?> is none.
RECURSIVE TopLevelElements(_, _, _)
TopLevelElements(s, i, depth) ==
    IF i > Len(s) THEN 0
    ELSE IF s[i] # "<" THEN TopLevelElements(s, i + 1, depth)
    ELSE LET close == IndexFrom(s, ">", i) IN
         IF close = 0 THEN 0
         ELSE IF s[i + 1] = "?" THEN TopLevelElements(s, close + 1, depth)
         ELSE IF s[i + 1] = "/" THEN TopLevelElements(s, close + 1, depth - 1)
         ELSE (IF depth = 0 THEN 1 ELSE 0)
              + TopLevelElements(s, close + 1, IF s[close - 1] = "/" THEN depth ELSE depth + 1)

\* C35 One root element in the output: with full_document, for a top-level
\* mapping with exactly one entry, whatever its value and whatever the
\* preprocessor does, a successful unparse returns a text with exactly one
\* top-level element after the declaration.
C35_OneRootElement ==
    (uStatus = "ok" /\ uInput # NoValue /\ uInput.uc.full_document /\ Len(uInput.dict) = 1) =>
        TopLevelElements(uOutput, 1, 0) = 1

(***************************************************************************)
(* C36: the same resolved name at the start and at the end of an element   *)
(***************************************************************************)
\* the postprocessor calls of the log
PostCallsOf(log) == LET IsPost(c) == c.fn = "post" IN SelectSeq(log, IsPost)

\* the name on top of the path is the raw name of the innermost open element
\* resolved against the mapping on top of namespace_stack
PathTopResolved ==
    (status = "running" /\ opened # <<>>) =>
        Last(path) = BuildName(config, namespace_stack, Last(opened).name)

\* an end tag was handled: the key it hands to the postprocessor, or merges
\* under when there is none, is the name its start tag pushed on the path
EndKeyIsPathTop ==
    (status = "running" /\ status' = "running" /\ event' = "end") =>
        /\ config.postprocessor # {} => Last(PostCallsOf(hookLog')).key = Last(path)
        /\ (config.postprocessor = {} /\ Len(stack) >= 2) =>
              /\ Last(kids') # <<>>
              /\ Last(Last(kids')).key = Last(path)
        /\ (config.postprocessor = {} /\ Len(stack) = 1) =>
              /\ Len(stack'[1]) = 1
              /\ DictHas(stack'[1], Last(path))

\* C36 Same name at start and end: for every element, the resolved name the
\* end tag computes, the key under which the element is merged into its
\* parent or wrapped as the root, equals the resolved name its start tag
\* pushed on the path: both are resolved against the namespace mapping that
\* start tag pushed.
C36_SameName == []PathTopResolved /\ [][EndKeyIsPathTop]_vars

\* reached: an element that declares its own prefix again was closed and
\* merged under the name resolved in its own scope
C36_Witness ==
    /\ status = "running"
    /\ event = "end"
    /\ tagName = Txt(NameNB)
    /\ config.postprocessor # {}
    /\ Len(stack) = 1
    /\ path = <<NameA>>
    /\ PostCallsOf(hookLog) # <<>>
    /\ Last(PostCallsOf(hookLog)).key = <<"w", ":", "b">>
    /\ DictHas(stack[1], <<"w", ":", "b">>)

(***************************************************************************)
(* C37: how the adapters signal the end of the stream                      *)
(***************************************************************************)
\* the last read put nothing into a buffer that had room
ReadZero == lastRead # NoValue /\ lastRead.k = "ok" /\ lastRead.size > 0 /\ lastRead.out = <<>>

\* the answer of the foreign source that ended the last read
EndingAnswer == lastRead.asked[Len(lastRead.asked)]

\* a read of zero bytes found no surplus, and the source had signalled its
\* end: the file returned an empty bytes object, the generator is exhausted
ZeroMeansEnd ==
    ReadZero =>
        /\ lastRead.surplus = 0
        /\ adapter = "file_like" =>
               /\ Len(lastRead.asked) = 1
               /\ IsBytesObject(EndingAnswer)
               /\ EndingAnswer.b = <<>>
        /\ adapter = "generator" =>
               /\ done
               /\ (lastRead.asked # <<>> => EndingAnswer.k = "stop")

\* the generator's empty chunks are passed over: every answer but the last
\* of a read is an empty chunk, and the last is the exhaustion or a chunk
\* with bytes, which the read then delivers
EmptyChunksSkipped ==
    (adapter = "generator" /\ lastRead # NoValue /\ lastRead.k = "ok" /\ lastRead.asked # <<>>) =>
        /\ \A i \in 1..(Len(lastRead.asked) - 1) :
               /\ lastRead.asked[i].k \in {"str", "bytes", "bytearray", "memoryview"}
               /\ lastRead.asked[i].b = <<>>
        /\ IF EndingAnswer.k = "stop" THEN lastRead.out = <<>>
           ELSE BytesOf(EndingAnswer) # <<>> /\ lastRead.out # <<>>

\* a read of the exhausted generator returns 0 and asks the generator nothing
ExhaustedStaysSilent ==
    (adapter = "generator" /\ done /\ reads' = reads + 1) =>
        /\ lastRead'.k = "ok"
        /\ lastRead'.out = <<>>
        /\ lastRead'.asked = <<>>
        /\ source' = source
        /\ done'

\* C37: a read into a non-empty buffer returns 0 only when no surplus is
\* buffered and the foreign source has signalled its end (an empty bytes
\* object from the file, exhaustion of the generator); an empty chunk of the
\* generator is skipped and never taken for the end; once the generator is
\* exhausted every later read returns 0 without calling it again.
C37_EndOfStream ==
    /\ [](ZeroMeansEnd /\ EmptyChunksSkipped)
    /\ [][ExhaustedStaysSilent]_vars

\* the exhausted generator, all of whose bytes were delivered, was read again
C37_Witness ==
    /\ adapter = "generator"
    /\ done
    /\ ReadZero
    /\ lastRead.asked = <<>>
    /\ delivered # <<>>
    /\ Len(taken) = Len(delivered)
    /\ reads >= 3


(***************************************************************************)
(* C38: escaping loses nothing, and escaping twice is not escaping once    *)
(***************************************************************************)
\* the strings compared with the escaped one: every input, and the two
\* escaped forms themselves (the strings that look like an escaped string)
EscapeRivals == EscapeInputs \cup {eOutput.text, eOutput.attr}

HasSpecial(s, specials) == \E i \in 1..Len(s) : s[i] \in specials

\* C38: escaping is injective: no string other than s has the escaped text
\* of s, and none has the escaped attribute value of s; and it is not
\* idempotent: when s holds a character the function replaces, escaping the
\* escaped form again changes it.
C38_EscapingInjective ==
    eOutput # NoValue =>
        /\ \A t \in EscapeRivals :
               t # eInput =>
                  /\ EscapeXml(t) # eOutput.text
                  /\ EscapeXmlAttr(t) # eOutput.attr
        /\ HasSpecial(eInput, {"&", "<", ">"}) => EscapeXml(eOutput.text) # eOutput.text
        /\ HasSpecial(eInput, {"&", "<", ">", "\""}) =>
               EscapeXmlAttr(eOutput.attr) # eOutput.attr

\* the string <" escaped: its escaped text differs from it, its escaped
\* attribute value differs from both, and each changes when escaped again
C38_Witness ==
    /\ eInput = <<"<", "\"">>
    /\ eOutput # NoValue
    /\ eOutput.text = <<"&", "l", "t", ";", "\"">>
    /\ eOutput.attr # eOutput.text
    /\ EscapeXml(eOutput.text) = <<"&", "a", "m", "p", ";", "l", "t", ";", "\"">>
    /\ EscapeXmlAttr(eOutput.attr) # eOutput.attr


(***************************************************************************)
(* C39: the pending buffer                                                 *)
(***************************************************************************)
\* the last call was a copy_into
Copied == lastRead # NoValue /\ lastRead.call = "copy_into"

\* C39: after any sequence of fill_from_slice, copy_into and clear calls,
\* offset <= buf.len(), and offset = buf.len() only when both are 0;
\* remaining() is the number of filled bytes not yet copied out (the bytes
\* copied out followed by the bytes left are the bytes filled); copy_into(out)
\* returns min(remaining, out.len()), copies that many bytes from offset on,
\* in order, and leaves that many fewer bytes remaining, so that it returns
\* at least 1 when bytes are pending and the buffer is not empty.
C39_PendingInvariant ==
    /\ pending.offset <= Len(pending.buf)
    /\ pending.offset = Len(pending.buf) => (pending.offset = 0 /\ pending.buf = <<>>)
    /\ PendingRemaining(pending) = Len(taken) - Len(delivered)
    /\ delivered \o PendingBytesLeft = taken
    /\ PendingIsEmpty(pending) <=> delivered = taken
    /\ Copied =>
          /\ Len(lastRead.out) = Min(lastRead.surplus, lastRead.size)
          /\ lastRead.out = SubSeq(lastRead.buf, lastRead.offset + 1,
                                    lastRead.offset + Len(lastRead.out))
          /\ PendingRemaining(pending) = lastRead.surplus - Len(lastRead.out)
          /\ pending.buf # <<>> =>
                 /\ pending.buf = lastRead.buf
                 /\ pending.offset = lastRead.offset + Len(lastRead.out)
          /\ (lastRead.surplus > 0 /\ lastRead.size > 0) => Len(lastRead.out) >= 1

\* three bytes were filled, one was copied out, and a copy_into with room
\* for two took the two that were left
C39_Witness ==
    /\ Copied
    /\ Len(taken) = 3
    /\ lastRead.offset = 1
    /\ lastRead.size = 2
    /\ Len(lastRead.out) = 2
    /\ pending = EmptyPending

====
